---- MODULE Spec2Model ----
(***************************************************************************)
(* A model of the greenlight JSON API: the movie store with its            *)
(* version-stamped conditional update (internal/data/movies.go and the     *)
(* movie handlers of cmd/api), and the per-client rate limiter middleware  *)
(* with its background sweeper (cmd/api/middleware.go).                    *)
(***************************************************************************)
EXTENDS Integers, Sequences, FiniteSets, TLC

(***************************************************************************)
(* Bounds of the model.                                                    *)
(***************************************************************************)
\* rows the bigserial id sequence may hand out
MaxID == 1
\* update requests are accepted while every stored version is below this
MaxVersion == 3
\* the year time.Now().Year() returns while the model runs
CurrentYear == 2026
\* the retrying client's retries are counted up to this number
MaxRetries == 3
\* the clock runs from minute 0 to this minute
MaxTime == 4
\* -limiter-burst: the tokens a client's bucket holds when full
Burst == 2
\* -limiter-rps, as the minutes one token takes to come back:
\* rps = 1 / (60 * RefillPeriod)
RefillPeriod == 3

(***************************************************************************)
(* Program constants.                                                      *)
(***************************************************************************)
\* `version integer NOT NULL DEFAULT 1` of the movies table (migration)
DefaultVersion == 1
\* v.Check(movie.Year >= 1888, ...)
MinYear == 1888
\* v.Check(len(movie.Title) <= 500, ...)
MaxTitleBytes == 500
\* v.Check(len(movie.Genres) <= 5, ...)
MaxGenres == 5
\* time.Sleep(time.Minute), in minutes
SweepInterval == 1
\* time.Since(client.lastSeen) > 3*time.Minute, in minutes
IdleThreshold == 3
\* limiter.Allow() takes one token
TokensPerRequest == 1
\* context.WithTimeout(context.Background(), 3*time.Second), in seconds
StoreTimeout == 3

\* the goroutines of net/http that serve the movie requests
Reqs == {"r1", "r2"}

\* A Go pointer field of the PATCH input: <<>> is nil, <<x>> points to x.
Nil == <<>>
Ptr(x) == <<x>>

\* Titles are modelled by their text; "" is the empty title.
Titles == {"", "A", "B"}
Years == {0, MinYear, CurrentYear + 1}
Runtimes == {0, 90}
GenreLists == {<<>>, <<"drama">>, <<"drama", "drama">>}

TitleLen(t) == IF t = "" THEN 0 ELSE 1

VARIABLES
    store,      \* the movies table: id -> row, for the ids that exist
    nextID,     \* the next value of the bigserial id sequence
    pc,         \* where each request goroutine is: "idle", "update", "done"
    movie,      \* the *data.Movie an update request holds (Nil: none)
    snap,       \* the row as Get returned it to the request (history)
    result,     \* what MovieModel.Update returned to the request
    resp,       \* the HTTP status codes the request has written, in order
    applied,    \* <<id, version>> -> UPDATEs that matched that row version (history)
    deleted,    \* ids whose row was deleted (history)
    logged,     \* how many times the request has called logError
    call,       \* the store method the request called last, as it returned (Nil: none)
    retries     \* conflicts after which the retrying client sent its PATCH again

VARIABLES
    now,        \* the clock, in minutes
    clients,    \* the clients map: ip -> [limiter, lastSeen], for the ips it holds
    mu,         \* who holds the mutex: "free", a connection or "sweeper"
    lpc,        \* where each connection's goroutine is in the middleware
    lip,        \* the ip SplitHostPort gave the connection's request
    served,     \* how the request ended: "none", "500", "429", or what the
                \* router did: "handler", "404", "405", "recovered"
    spc,        \* where the sweeper goroutine is: "sleep", "lock", "sweep"
    sleepStart, \* when the sweeper's time.Sleep began
    todo,       \* the map entries the sweeper's range loop has yet to visit
    allowed,    \* requests of the watched client admitted so far (history)
    firstCall,  \* <<t>>: its first admission decision was at t; <<>>: none yet (history)
    evictions   \* times the sweeper deleted the watched client's entry (history)

VARIABLES
    enabled,    \* app.config.limiter.enabled
    raddr,      \* r.RemoteAddr of the request each connection is serving
    sweepStart, \* when the sweeper's pass took the mutex; between passes,
                \* when its sleep began (history)
    reference,  \* the watched client's limiter as it would be had no entry
                \* ever been deleted (Nil: no request yet) (history)
    lossy       \* a new limiter replaced a deleted one that would not have
                \* been full by then (history)

VARIABLES
    removed     \* id -> Deletes of it that returned nil (history)

dbvars == <<store, nextID, pc, movie, snap, result, resp, applied, deleted,
            logged, call>>

VARIABLES
    wg,         \* app.wg: the counter of the wait group
    upc,        \* where the handler of each registration request is
    uerr,       \* the handler's variable err, which the function it passes to
                \* background() assigns too
    uresp,      \* the HTTP status codes the handler has written, in order
    bpc,        \* where the goroutine background() started for the request is
    panicking,  \* that goroutine is unwinding a panic
    dones,      \* calls of app.wg.Done by that goroutine (history)
    entries,    \* who wrote an error to the log for the request (history)
    alive       \* no panic has ended the process

uservars == <<wg, upc, uerr, uresp, bpc, panicking, dones, entries, alive>>

VARIABLES
    kpc,        \* where the goroutine of each connection is in recoverPanic
    wire,       \* what the client has been sent for the request: the status
                \* line (0: none yet), whether the header Connection: close
                \* went with it, and the JSON documents of the body
    header,     \* w.Header() holds Connection: close
    plog,       \* calls of logError for the request
    unwinding   \* the goroutine is unwinding a panic

panicvars == <<kpc, wire, header, plog, unwinding>>

VARIABLES
    mpc,        \* where the goroutine that called serve() is
    gpc,        \* where the goroutine that serve() starts for signals is
    quit,       \* the signals in the channel quit
    caught,     \* a signal has been relayed to quit (history)
    closing,    \* srv.Shutdown has been called
    inflight,   \* requests the server is serving
    shutres,    \* what srv.Shutdown returned ("none": it has not returned)
    ret,        \* what serve() returned ("none": it has not returned)
    slog        \* the messages serve() has logged

servevars == <<mpc, gpc, quit, caught, closing, inflight, shutres, ret, slog>>

VARIABLES
    verrors,    \* v.Errors of a Validator: key -> message, for the keys it holds
    vcalls,     \* calls of Check and AddError on it so far
    vfailed,    \* key -> message of the first call that failed for the key,
                \* for the keys with one (history)
    vfailures   \* calls that failed: Check with ok false, AddError (history)

validatorvars == <<verrors, vcalls, vfailed, vfailures>>

VARIABLES
    fpc,        \* where the goroutine that runs listMovieHandler is
    qs,         \* the query string of its request: page, page_size, sort
    filters,    \* input.Filters as the handler filled it
    ferrors,    \* v.Errors of the handler's Validator
    fstatus     \* the status code the handler answered with (0: none)

filtervars == <<fpc, qs, filters, ferrors, fstatus>>

VARIABLES
    rt,         \* a Runtime: the receiver of UnmarshalJSON
    rprev,      \* the receiver before the last call of UnmarshalJSON (history)
    rinput,     \* the bytes given to the last call (Nil: no call yet)
    rsource,    \* <<r>>: those bytes came from MarshalJSON of r; Nil: from a client
    rerr        \* what the last call returned ("none": no call yet)

runtimevars == <<rt, rprev, rinput, rsource, rerr>>

\* The state of the parts of the program outside the movie handlers and the
\* limiter.
othervars == <<uservars, panicvars, servevars, validatorvars, filtervars, runtimevars>>

rlvars == <<now, clients, mu, lpc, lip, served, spc, sleepStart, todo,
            allowed, firstCall, evictions, enabled, raddr, sweepStart,
            reference, lossy>>

vars == <<dbvars, retries, removed, othervars, rlvars>>

(***************************************************************************)
(* internal/data/movies.go                                                 *)
(***************************************************************************)

\* validator.Unique: no value occurs twice
Unique(s) == \A i, j \in 1..Len(s) : s[i] = s[j] => i = j

\* ValidateMovie: TRUE iff no check fails (v.Valid())
ValidateMovie(m) ==
    /\ m.title # ""
    /\ TitleLen(m.title) <= MaxTitleBytes
    /\ m.year # 0
    /\ m.year >= MinYear
    /\ m.year <= CurrentYear
    /\ m.runtime # 0
    /\ m.runtime > 0
    /\ Len(m.genres) >= 1
    /\ Len(m.genres) <= MaxGenres
    /\ Unique(m.genres)

\* The row INSERT ... RETURNING id, created_at, version creates.
InsertRow(m, id) ==
    [id |-> id, title |-> m.title, year |-> m.year, runtime |-> m.runtime,
     genres |-> m.genres, version |-> DefaultVersion]

\* MovieModel.Get: the row, or the error
GetErr(db, id) ==
    IF id < 1 \/ id \notin DOMAIN db THEN "ErrRecordNotFound" ELSE "nil"

\* Mutants of the WHERE clause: the version test dropped; the version test
\* turned into "the stored version is not older".
UpdateMatches_IdOnly(db, m) == m.id \in DOMAIN db

UpdateMatches_NotOlder(db, m) ==
    /\ m.id \in DOMAIN db
    /\ db[m.id].version >= m.version

\* WHERE id = $5 AND version = $6
UpdateMatches(db, m) ==
    /\ m.id \in DOMAIN db
    /\ db[m.id].version = m.version

\* Mutant of the SET clause: the version is left as it is.
UpdateRow_NoIncrement(row, m) ==
    [row EXCEPT !.title = m.title, !.year = m.year, !.runtime = m.runtime,
                !.genres = m.genres]

\* SET title = $1, year = $2, runtime = $3, genres = $4, version = version + 1
UpdateRow(row, m) ==
    [row EXCEPT !.title = m.title, !.year = m.year, !.runtime = m.runtime,
                !.genres = m.genres, !.version = row.version + 1]

\* Mutant of the statement: an upsert, a missing row is written anew.
UpdateStore_Upsert(db, m) ==
    IF m.id \in DOMAIN db
    THEN IF UpdateMatches(db, m)
         THEN [db EXCEPT ![m.id] = UpdateRow(db[m.id], m)]
         ELSE db
    ELSE [i \in DOMAIN db \cup {m.id} |->
            IF i = m.id THEN [m EXCEPT !.version = m.version + 1] ELSE db[i]]

\* The table after the UPDATE statement ran.
UpdateStore(db, m) ==
    IF UpdateMatches(db, m)
    THEN [db EXCEPT ![m.id] = UpdateRow(db[m.id], m)]
    ELSE db

\* Mutant of the error mapping: sql.ErrNoRows is dropped.
UpdateErr_Swallow(db, m) == "nil"

\* What MovieModel.Update returns when the statement ran: sql.ErrNoRows
\* becomes ErrEditConflict.
UpdateErr(db, m) ==
    IF UpdateMatches(db, m) THEN "nil" ELSE "ErrEditConflict"

\* Mutant of the Scan: the returned version is not stored in the movie.
UpdateMovie_NoScan(db, m) == m

\* Scan(&movie.Version): the RETURNING value is stored only when a row came back.
UpdateMovie(db, m) ==
    IF UpdateMatches(db, m)
    THEN [m EXCEPT !.version = UpdateStore(db, m)[m.id].version]
    ELSE m

\* DELETE FROM movies where id = $1
DeleteStore(db, id) == [i \in DOMAIN db \ {id} |-> db[i]]

\* Mutant of MovieModel.Delete: RowsAffected is not looked at.
DeleteErr_IgnoreRows(db, id) ==
    IF id < 1 THEN "ErrRecordNotFound" ELSE "nil"

DeleteErr(db, id) ==
    IF id < 1 \/ id \notin DOMAIN db THEN "ErrRecordNotFound" ELSE "nil"

(***************************************************************************)
(* cmd/api: the movie handlers                                             *)
(***************************************************************************)

\* The JSON bodies a client may send: every field given or not.
CreateInputs ==
    [title : Titles, year : Years, runtime : Runtimes, genres : GenreLists]

PatchInputs ==
    [title : {Nil} \cup {Ptr(t) : t \in Titles},
     year : {Nil} \cup {Ptr(y) : y \in Years},
     runtime : {Nil} \cup {Ptr(r) : r \in Runtimes},
     genres : {Nil} \cup {Ptr(g) : g \in GenreLists}]

\* The :id parameters a client may send; readIDParam rejects those below 1.
IDParams == 0..MaxID

\* Mutant of the copy: the record is built anew from the body, its Version
\* left at Go's zero value.
ApplyInput_FreshStruct(row, in) ==
    [row EXCEPT
        !.title = IF in.title # Nil THEN in.title[1] ELSE @,
        !.year = IF in.year # Nil THEN in.year[1] ELSE @,
        !.runtime = IF in.runtime # Nil THEN in.runtime[1] ELSE @,
        !.genres = IF in.genres # Nil THEN in.genres[1] ELSE @,
        !.version = 0]

\* Mutant of the copy: the year of the body is not copied.
ApplyInput_KeepYear(row, in) ==
    [row EXCEPT
        !.title = IF in.title # Nil THEN in.title[1] ELSE @,
        !.runtime = IF in.runtime # Nil THEN in.runtime[1] ELSE @,
        !.genres = IF in.genres # Nil THEN in.genres[1] ELSE @]

\* updateMovieHandler: copy the fields the body holds onto the record read
ApplyInput(row, in) ==
    [row EXCEPT
        !.title = IF in.title # Nil THEN in.title[1] ELSE @,
        !.year = IF in.year # Nil THEN in.year[1] ELSE @,
        !.runtime = IF in.runtime # Nil THEN in.runtime[1] ELSE @,
        !.genres = IF in.genres # Nil THEN in.genres[1] ELSE @]

\* errors.go: a response is the status it writes and whether logError ran.
errorResponse(status) == [status |-> status, logs |-> FALSE]

serverErrorResponse == [status |-> 500, logs |-> TRUE]

notFoundResponse == errorResponse(404)

badRequestResponse == errorResponse(400)

failedValidationResponse == errorResponse(422)

editConflictResponse == errorResponse(409)

\* writeJSON of a success envelope
writeJSON(status) == [status |-> status, logs |-> FALSE]

\* context.WithTimeout(parent, d) and its cancel function
WithTimeout(parent, d) == [parent |-> parent, timeout |-> d, cancelled |-> FALSE]

cancel(c) == [c EXCEPT !.cancelled = TRUE]

\* Mutant of the store methods: the deferred cancel is missing.
StoreCall_NoCancel(method, statements, err) ==
    [method |-> method, statements |-> statements, err |-> err,
     ctx |-> WithTimeout("Background", StoreTimeout)]

\* What a returned store method leaves behind: the statements it sent, the
\* error the driver gave it, and its context, made from context.Background()
\* and cancelled by the deferred cancel().
StoreCall(method, statements, err) ==
    [method |-> method, statements |-> statements, err |-> err,
     ctx |-> cancel(WithTimeout("Background", StoreTimeout))]

\* The request ends: it has written the responses `rs` and holds nothing.
Finish(r, rs) ==
    /\ pc' = [pc EXCEPT ![r] = "done"]
    /\ resp' = [resp EXCEPT ![r] = [i \in 1..Len(rs) |-> rs[i].status]]
    /\ logged' = [logged EXCEPT ![r] = Cardinality({i \in 1..Len(rs) : rs[i].logs})]

\* How the parts of a request outside the model end: "ok"; "bad_body",
\* readJSON returns an error; "fault", the store call returns an error
\* other than no-row (a lost connection, the 3-second deadline).
Hows == {"ok", "bad_body", "fault"}

\* createMovieHandler: readJSON, ValidateMovie, Insert, 201
CreateMovie(r, how, in) ==
    /\ pc[r] = "idle"
    /\ nextID <= MaxID
    /\ UNCHANGED <<movie, snap, result, applied, deleted>>
    /\ IF how = "bad_body"
       THEN Finish(r, <<badRequestResponse>>) /\ UNCHANGED <<store, nextID, call>>
       ELSE IF ~ValidateMovie(in)
       THEN Finish(r, <<failedValidationResponse>>) /\ UNCHANGED <<store, nextID, call>>
       ELSE IF how = "fault"
       THEN /\ Finish(r, <<serverErrorResponse>>)
            /\ call' = [call EXCEPT ![r] = StoreCall("Insert", 1, "fault")]
            /\ UNCHANGED <<store, nextID>>
       ELSE /\ store' = [i \in DOMAIN store \cup {nextID} |->
                            IF i = nextID THEN InsertRow(in, nextID) ELSE store[i]]
            /\ nextID' = nextID + 1
            /\ call' = [call EXCEPT ![r] = StoreCall("Insert", 1, "nil")]
            /\ Finish(r, <<writeJSON(201)>>)

\* No update request is taken up once a stored version has reached MaxVersion.
BelowMaxVersion == \A i \in DOMAIN store : store[i].version < MaxVersion

\* MovieModel.Get as the handlers call it (id >= 1): one SELECT under its
\* own context; "fault" stands for every driver error other than sql.ErrNoRows.
GetCall(db, id, how) ==
    StoreCall("Get", 1,
              IF how = "fault" THEN "fault"
              ELSE IF GetErr(db, id) = "ErrRecordNotFound" THEN "sql.ErrNoRows"
              ELSE "nil")

\* updateMovieHandler up to its call of Update: readIDParam, Get, readJSON,
\* the copy of the input fields, ValidateMovie.
UpdateHandlerGet(r, p, how, in) ==
    /\ pc[r] = "idle"
    /\ UNCHANGED <<store, nextID, result, applied, deleted>>
    /\ IF p < 1
       THEN Finish(r, <<notFoundResponse>>) /\ UNCHANGED <<movie, snap, call>>
       ELSE /\ call' = [call EXCEPT ![r] = GetCall(store, p, how)]
            /\ IF how = "fault"
               THEN Finish(r, <<serverErrorResponse>>) /\ UNCHANGED <<movie, snap>>
               ELSE IF GetErr(store, p) = "ErrRecordNotFound"
               THEN \* notFoundResponse without a return: the handler goes on with a
                    \* nil movie; a readable body leads to a nil dereference, which
                    \* recoverPanic answers with serverErrorResponse.
                    /\ Finish(r, IF how = "bad_body"
                                 THEN <<notFoundResponse, badRequestResponse>>
                                 ELSE <<notFoundResponse, serverErrorResponse>>)
                    /\ UNCHANGED <<movie, snap>>
               ELSE IF how = "bad_body"
               THEN Finish(r, <<badRequestResponse>>) /\ UNCHANGED <<movie, snap>>
               ELSE IF ~ValidateMovie(ApplyInput(store[p], in))
               THEN Finish(r, <<failedValidationResponse>>) /\ UNCHANGED <<movie, snap>>
               ELSE /\ movie' = [movie EXCEPT ![r] = ApplyInput(store[p], in)]
                    /\ snap' = [snap EXCEPT ![r] = store[p]]
                    /\ pc' = [pc EXCEPT ![r] = "update"]
                    /\ UNCHANGED <<resp, logged>>

\* How a store call may end: the statement ran and its reply arrived; the
\* call failed before the statement ran; the statement ran but the 3-second
\* deadline passed before its reply arrived.
Outcomes == {"reply", "fault", "lost_reply"}

\* Mutant of MovieModel.Update: an error other than no-row makes it send the
\* statement a second time, and it returns what the second attempt gives.
UpdateCall_Retry(db, m, outcome) ==
    LET ran == outcome # "fault"
        db1 == IF ran THEN UpdateStore(db, m) ELSE db
    IN  IF outcome = "reply"
        THEN [store |-> db1, movie |-> UpdateMovie(db, m), err |-> UpdateErr(db, m),
              call |-> StoreCall("Update", 1,
                                 IF UpdateMatches(db, m) THEN "nil" ELSE "sql.ErrNoRows")]
        ELSE [store |-> UpdateStore(db1, m), movie |-> UpdateMovie(db1, m),
              err |-> UpdateErr(db1, m),
              call |-> StoreCall("Update", 2, "fault")]

\* MovieModel.Update as a whole: one UPDATE under its own context. The table
\* and the movie after it, the error it returns, and its bookkeeping: the
\* driver's sql.ErrNoRows becomes ErrEditConflict, every other driver error
\* ("fault", the deadline included) is returned as it is.
UpdateCall(db, m, outcome) ==
    LET ran == outcome # "fault"
        raw == IF outcome # "reply" THEN "fault"
               ELSE IF UpdateMatches(db, m) THEN "nil" ELSE "sql.ErrNoRows"
    IN  [store |-> IF ran THEN UpdateStore(db, m) ELSE db,
         movie |-> IF outcome = "reply" THEN UpdateMovie(db, m) ELSE m,
         err |-> IF outcome = "reply" THEN UpdateErr(db, m) ELSE raw,
         call |-> StoreCall("Update", 1, raw)]

\* Mutant of the handler's error switch: every error of Update is answered
\* with serverErrorResponse.
UpdateResponse_ServerError(err) ==
    IF err = "nil" THEN writeJSON(200) ELSE serverErrorResponse

\* updateMovieHandler's answer to what Update returned
UpdateResponse(err) ==
    IF err = "nil" THEN writeJSON(200)
    ELSE IF err = "ErrEditConflict" THEN editConflictResponse
    ELSE serverErrorResponse

\* updateMovieHandler from its call of Update on
UpdateHandlerUpdate(r, outcome) ==
    /\ pc[r] = "update"
    /\ LET m == movie[r]
           u == UpdateCall(store, m, outcome)
       IN  /\ store' = u.store
           /\ movie' = [movie EXCEPT ![r] = u.movie]
           /\ result' = [result EXCEPT ![r] = u.err]
           /\ call' = [call EXCEPT ![r] = u.call]
           /\ applied' = IF store' # store
                         THEN [applied EXCEPT ![<<m.id, m.version>>] = @ + 1]
                         ELSE applied
           /\ Finish(r, <<UpdateResponse(u.err)>>)
    /\ UNCHANGED <<nextID, snap, deleted>>

\* deleteMovieHandler: readIDParam, Delete, 200
DeleteMovie(r, p, how) ==
    /\ pc[r] = "idle"
    /\ UNCHANGED <<nextID, movie, snap, result, applied>>
    /\ IF p < 1
       THEN /\ Finish(r, <<notFoundResponse>>)
            /\ UNCHANGED <<store, deleted, removed, call>>
       ELSE IF how = "fault"
       THEN /\ Finish(r, <<serverErrorResponse>>)
            /\ call' = [call EXCEPT ![r] = StoreCall("Delete", 1, "fault")]
            /\ UNCHANGED <<store, deleted, removed>>
       ELSE /\ call' = [call EXCEPT ![r] = StoreCall("Delete", 1, "nil")]
            /\ IF DeleteErr(store, p) = "ErrRecordNotFound"
               THEN /\ Finish(r, <<notFoundResponse>>)
                    /\ UNCHANGED <<store, deleted, removed>>
               ELSE /\ store' = DeleteStore(store, p)
                    /\ deleted' = deleted \cup {p}
                    /\ removed' = [removed EXCEPT ![p] = @ + 1]
                    /\ Finish(r, <<writeJSON(200)>>)

\* showMovieHandler: readIDParam, Get, 200. A readIDParam error is answered
\* with serverErrorResponse.
ShowMovie(r, p, how) ==
    /\ pc[r] = "idle"
    /\ UNCHANGED <<store, nextID, movie, snap, result, applied, deleted>>
    /\ IF p < 1
       THEN Finish(r, <<serverErrorResponse>>) /\ UNCHANGED call
       ELSE /\ call' = [call EXCEPT ![r] = GetCall(store, p, how)]
            /\ IF how = "fault"
               THEN Finish(r, <<serverErrorResponse>>)
               ELSE IF GetErr(store, p) = "ErrRecordNotFound"
               THEN Finish(r, <<notFoundResponse>>)
               ELSE Finish(r, <<writeJSON(200)>>)

\* The goroutine ends; net/http serves the next request on a new one.
NextRequest(r) ==
    /\ pc[r] = "done"
    /\ pc' = [pc EXCEPT ![r] = "idle"]
    /\ movie' = [movie EXCEPT ![r] = Nil]
    /\ snap' = [snap EXCEPT ![r] = Nil]
    /\ result' = [result EXCEPT ![r] = "none"]
    /\ resp' = [resp EXCEPT ![r] = <<>>]
    /\ logged' = [logged EXCEPT ![r] = 0]
    /\ call' = [call EXCEPT ![r] = Nil]
    /\ UNCHANGED <<store, nextID, applied, deleted>>

(***************************************************************************)
(* cmd/api/middleware.go: rateLimit                                        *)
(***************************************************************************)

\* the goroutines of net/http, one per connection, that run the middleware
Conns == {"g1", "g2"}

\* the hosts of the remote addresses
IPs == {"a", "b"}

\* the client whose admissions the history variables count
Watched == "a"

\* lip of a goroutine that holds no ip
NoIP == ""

\* raddr of a connection that is serving no request
NoAddr == "none"

\* r.RemoteAddr as the transport gives it: host:port, or a text that
\* net.SplitHostPort cannot split
RemoteAddrs == IPs \cup {"unsplittable"}

Min(x, y) == IF x <= y THEN x ELSE y

\* Tokens are counted in units of 1/RefillPeriod token: a minute brings one
\* unit back, a request takes RefillPeriod units.
UnitsPerToken == RefillPeriod

\* rate.NewLimiter(rate.Limit(app.config.limiter.rps), app.config.limiter.burst):
\* a token bucket of size burst, initially full
NewLimiter(burst, t) ==
    [tokens |-> burst * UnitsPerToken, burst |-> burst, last |-> t]

\* Mutant: the limiter of rateLimitv1, rate.NewLimiter(2, 4), whatever the
\* configuration says.
NewClient_Hardcoded(t) == [limiter |-> NewLimiter(4, t), lastSeen |-> t]

\* clients[ip] = &client{limiter: rate.NewLimiter(...)}
NewClient(t) == [limiter |-> NewLimiter(Burst, t), lastSeen |-> t]

\* The tokens of the limiter at time t: what it held at its last event plus
\* what has come back since, at most burst.
LimiterTokens(lim, t) ==
    Min(lim.burst * UnitsPerToken, lim.tokens + (t - lim.last))

\* limiter.Allow() at time t: is there a token
AllowOK(lim, t) == LimiterTokens(lim, t) >= TokensPerRequest * UnitsPerToken

\* limiter.Allow() at time t: the limiter afterwards; a refused call leaves
\* it as it was
AllowLimiter(lim, t) ==
    IF AllowOK(lim, t)
    THEN [lim EXCEPT !.tokens = LimiterTokens(lim, t) - TokensPerRequest * UnitsPerToken,
                     !.last = t]
    ELSE lim

\* Mutant: the found test is gone, every request gets a new client.
Lookup_AlwaysNew(cs, ip, t) == NewClient(t)

\* if _, found := clients[ip]; !found { clients[ip] = &client{...} }
Lookup(cs, ip, t) == IF ip \in DOMAIN cs THEN cs[ip] ELSE NewClient(t)

\* Mutant: one bucket for all, the write reaches every entry of the map.
Put_Global(cs, ip, c) == [i \in DOMAIN cs \cup {ip} |-> c]

\* Mutant: lastSeen is set inside the !found block, only when the client is
\* created.
Put_LastSeenOnCreate(cs, ip, c) ==
    [i \in DOMAIN cs \cup {ip} |->
        IF i # ip THEN cs[i]
        ELSE IF ip \in DOMAIN cs THEN [c EXCEPT !.lastSeen = cs[ip].lastSeen]
        ELSE c]

\* Mutant: the map holds client values, not pointers; what Allow did to the
\* limiter of an entry already in the map is lost.
Put_ByValue(cs, ip, c) ==
    IF ip \in DOMAIN cs
    THEN [cs EXCEPT ![ip].lastSeen = c.lastSeen]
    ELSE [i \in DOMAIN cs \cup {ip} |-> IF i = ip THEN c ELSE cs[i]]

\* The map with ip's entry set to c: clients[ip] is a pointer, what the
\* handler does to the client is done to the map's entry.
Put(cs, ip, c) == [i \in DOMAIN cs \cup {ip} |-> IF i = ip THEN c ELSE cs[i]]

\* The limiter of the watched client with no sweeper: made by its first
\* request, never made anew.
ReferenceLimiter(rl, t) == IF rl = Nil THEN NewLimiter(Burst, t) ELSE rl

\* The same limiter after the Allow() of a request from ip at time t
ReferenceNext(rl, ip, t) ==
    IF ip = Watched THEN AllowLimiter(ReferenceLimiter(rl, t), t) ELSE rl

\* A request from ip at time t finds no entry in the map cs: the limiter made
\* for it is full; has the deleted one refilled to full as well
LossyNext(l, rl, cs, ip, t) ==
    l \/ (/\ ip = Watched
          /\ ip \notin DOMAIN cs
          /\ rl # Nil
          /\ LimiterTokens(rl, t) < rl.burst * UnitsPerToken)

\* Mutant: the error of net.SplitHostPort is not looked at, the request goes
\* on with what was returned for the ip.
Arrive_IgnoreError(g, addr) ==
    /\ lpc[g] = "idle"
    /\ lpc' = [lpc EXCEPT ![g] = "lock"]
    /\ lip' = [lip EXCEPT ![g] = addr]
    /\ raddr' = [raddr EXCEPT ![g] = addr]
    /\ UNCHANGED <<now, clients, mu, served, spc, sleepStart, todo,
                   allowed, firstCall, evictions>>
    /\ UNCHANGED <<dbvars, retries, removed, othervars, reference, lossy, enabled, sweepStart>>

\* The request arrives: net.SplitHostPort(r.RemoteAddr); an error is answered
\* with serverErrorResponse.
Arrive(g, addr) ==
    /\ lpc[g] = "idle"
    /\ IF addr \notin IPs
       THEN /\ lpc' = [lpc EXCEPT ![g] = "done"]
            /\ served' = [served EXCEPT ![g] = "500"]
            /\ UNCHANGED lip
       ELSE /\ lpc' = [lpc EXCEPT ![g] = "lock"]
            /\ lip' = [lip EXCEPT ![g] = addr]
            /\ UNCHANGED served
    /\ UNCHANGED <<now, clients, mu, spc, sleepStart, todo, allowed, firstCall, evictions>>
    /\ raddr' = [raddr EXCEPT ![g] = addr]
    /\ UNCHANGED <<dbvars, retries, removed, othervars, reference, lossy, enabled, sweepStart>>

\* Mutant: the handler does not wait for the mutex.
Lock_NoMutex(g) ==
    /\ lpc[g] = "lock"
    /\ mu' = g
    /\ lpc' = [lpc EXCEPT ![g] = "locked"]
    /\ UNCHANGED <<now, clients, lip, served, spc, sleepStart, todo,
                   allowed, firstCall, evictions>>
    /\ UNCHANGED <<dbvars, retries, removed, othervars, reference, lossy, enabled, raddr, sweepStart>>

\* mu.Lock()
Lock(g) ==
    /\ lpc[g] = "lock"
    /\ mu = "free"
    /\ mu' = g
    /\ lpc' = [lpc EXCEPT ![g] = "locked"]
    /\ UNCHANGED <<now, clients, lip, served, spc, sleepStart, todo,
                   allowed, firstCall, evictions>>
    /\ UNCHANGED <<dbvars, retries, removed, othervars, reference, lossy, enabled, raddr, sweepStart>>

\* From the found test to mu.Unlock(): find or create the client, set its
\* lastSeen, call Allow.
Admit(g) ==
    /\ lpc[g] = "locked"
    /\ LET ip == lip[g]
           c == Lookup(clients, ip, now)
           ok == AllowOK(c.limiter, now)
       IN  /\ clients' = Put(clients, ip,
                             [limiter |-> AllowLimiter(c.limiter, now),
                              lastSeen |-> now])
           /\ lpc' = [lpc EXCEPT ![g] = IF ok THEN "next" ELSE "denied"]
           /\ allowed' = IF ok /\ ip = Watched THEN allowed + 1 ELSE allowed
           /\ firstCall' = IF ip = Watched /\ firstCall = <<>>
                           THEN <<now>> ELSE firstCall
    /\ mu' = "free"
    /\ lip' = [lip EXCEPT ![g] = NoIP]
    /\ UNCHANGED <<now, served, spc, sleepStart, todo, evictions>>
    /\ UNCHANGED <<dbvars, retries, removed, othervars, enabled, raddr, sweepStart>>
    /\ reference' = ReferenceNext(reference, lip[g], now)
    /\ lossy' = LossyNext(lossy, reference, clients, lip[g], now)

\* Mutant: the return after rateLimitExceededResponse is missing.
RateLimitExceeded_NoReturn(g) ==
    /\ lpc[g] = "denied"
    /\ lpc' = [lpc EXCEPT ![g] = "next"]
    /\ served' = [served EXCEPT ![g] = "429"]
    /\ UNCHANGED <<now, clients, mu, lip, spc, sleepStart, todo,
                   allowed, firstCall, evictions>>
    /\ UNCHANGED <<dbvars, retries, removed, othervars, reference, lossy, enabled, raddr, sweepStart>>

\* app.rateLimitExceededResponse(w, r)
RateLimitExceeded(g) ==
    /\ lpc[g] = "denied"
    /\ lpc' = [lpc EXCEPT ![g] = "done"]
    /\ served' = [served EXCEPT ![g] = "429"]
    /\ UNCHANGED <<now, clients, mu, lip, spc, sleepStart, todo,
                   allowed, firstCall, evictions>>
    /\ UNCHANGED <<dbvars, retries, removed, othervars, reference, lossy, enabled, raddr, sweepStart>>

\* What the router does with a request: it runs the handler of the route,
\* app.notFoundResponse (no such route), app.methodNotAllowed (the route has
\* no such method), or the handler panics and recoverPanic answers.
RouterOutcomes == {"handler", "404", "405", "recovered"}

\* next.ServeHTTP(w, r)
ServeNext(g) ==
    /\ lpc[g] = "next"
    /\ lpc' = [lpc EXCEPT ![g] = "done"]
    /\ \E out \in RouterOutcomes : served' = [served EXCEPT ![g] = out]
    /\ UNCHANGED <<now, clients, mu, lip, spc, sleepStart, todo,
                   allowed, firstCall, evictions>>
    /\ UNCHANGED <<dbvars, retries, removed, othervars, reference, lossy, enabled, raddr, sweepStart>>

\* The connection's next request.
NextArrival(g) ==
    /\ lpc[g] = "done"
    /\ lpc' = [lpc EXCEPT ![g] = "idle"]
    /\ served' = [served EXCEPT ![g] = "none"]
    /\ UNCHANGED <<now, clients, mu, lip, spc, sleepStart, todo,
                   allowed, firstCall, evictions>>
    /\ raddr' = [raddr EXCEPT ![g] = NoAddr]
    /\ UNCHANGED <<dbvars, retries, removed, othervars, reference, lossy, enabled, sweepStart>>

\* A minute passes.
Tick ==
    /\ now < MaxTime
    /\ now' = now + 1
    /\ UNCHANGED <<clients, mu, lpc, lip, served, spc, sleepStart, todo,
                   allowed, firstCall, evictions>>
    /\ UNCHANGED <<dbvars, retries, removed, othervars, reference, lossy, enabled, raddr, sweepStart>>

\* time.Sleep(time.Minute) returns.
SweeperWake ==
    /\ spc = "sleep"
    /\ now - sleepStart >= SweepInterval
    /\ spc' = "lock"
    /\ UNCHANGED <<now, clients, mu, lpc, lip, served, sleepStart, todo,
                   allowed, firstCall, evictions>>
    /\ UNCHANGED <<dbvars, retries, removed, othervars, reference, lossy, enabled, raddr, sweepStart>>

\* Mutant: the sweeper starts its range loop without the mutex.
SweeperLock_NoMutex ==
    /\ spc = "lock"
    /\ spc' = "sweep"
    /\ todo' = DOMAIN clients
    /\ sweepStart' = now
    /\ UNCHANGED <<now, clients, mu, lpc, lip, served, sleepStart,
                   allowed, firstCall, evictions>>
    /\ UNCHANGED <<dbvars, retries, removed, othervars, reference, lossy, enabled, raddr>>

\* The sweeper's mu.Lock(); the range loop starts over the entries of the map.
SweeperLock ==
    /\ spc = "lock"
    /\ mu = "free"
    /\ mu' = "sweeper"
    /\ spc' = "sweep"
    /\ todo' = DOMAIN clients
    /\ UNCHANGED <<now, clients, lpc, lip, served, sleepStart,
                   allowed, firstCall, evictions>>
    /\ sweepStart' = now
    /\ UNCHANGED <<dbvars, retries, removed, othervars, reference, lossy, enabled, raddr>>

\* Mutant: an entry is idle from the threshold on.
Idle_AtThreshold(c, t) == t - c.lastSeen >= IdleThreshold

\* Mutant: the threshold is a minute longer.
Idle_OffByOne(c, t) == t - c.lastSeen > IdleThreshold + 1

\* time.Since(client.lastSeen) > 3*time.Minute
Idle(c, t) == t - c.lastSeen > IdleThreshold

\* One pass of the range loop: delete the entry if it is idle.
SweepEntry(ip) ==
    /\ spc = "sweep"
    /\ ip \in todo
    /\ todo' = todo \ {ip}
    /\ IF Idle(clients[ip], now)
       THEN /\ clients' = [i \in DOMAIN clients \ {ip} |-> clients[i]]
            /\ evictions' = IF ip = Watched THEN evictions + 1 ELSE evictions
       ELSE UNCHANGED <<clients, evictions>>
    /\ UNCHANGED <<now, mu, lpc, lip, served, spc, sleepStart, allowed, firstCall>>
    /\ UNCHANGED <<dbvars, retries, removed, othervars, reference, lossy, enabled, raddr, sweepStart>>

\* The loop is over: mu.Unlock(), and the next time.Sleep begins.
SweeperUnlock ==
    /\ spc = "sweep"
    /\ todo = {}
    /\ mu' = "free"
    /\ spc' = "sleep"
    /\ sleepStart' = now
    /\ UNCHANGED <<now, clients, lpc, lip, served, todo, allowed, firstCall, evictions>>
    /\ sweepStart' = now
    /\ UNCHANGED <<dbvars, retries, removed, othervars, reference, lossy, enabled, raddr>>

\* The middleware as routes() has built it, with -limiter-enabled given as e.
InitLimiter(e) ==
    /\ now = 0
    /\ clients = <<>>
    /\ mu = "free"
    /\ lpc = [g \in Conns |-> "idle"]
    /\ lip = [g \in Conns |-> NoIP]
    /\ served = [g \in Conns |-> "none"]
    /\ spc = "sleep"
    /\ sleepStart = 0
    /\ todo = {}
    /\ allowed = 0
    /\ firstCall = <<>>
    /\ evictions = 0
    /\ enabled = e
    /\ raddr = [g \in Conns |-> NoAddr]
    /\ sweepStart = 0
    /\ reference = Nil
    /\ lossy = FALSE

\* -limiter-enabled is true unless the command line says otherwise.
InitRL == InitLimiter(TRUE)

\* The steps of the middleware with the connections CS open and the remote
\* addresses AS in use, of the clock and of the sweeper.
RLStep(CS, AS) ==
    \/ \E g \in CS :
         \/ \E addr \in AS : Arrive(g, addr)
         \/ Lock(g)
         \/ Admit(g)
         \/ RateLimitExceeded(g)
         \/ ServeNext(g)
         \/ NextArrival(g)
    \/ Tick
    \/ SweeperWake
    \/ SweeperLock
    \/ \E ip \in IPs : SweepEntry(ip)
    \/ SweeperUnlock

(***************************************************************************)
(* The critical section of the handler statement by statement: Admit is    *)
(* Found, then Create or LastSeen, then Allow.                             *)
(***************************************************************************)

\* if _, found := clients[ip]; !found
Found(g) ==
    /\ lpc[g] = "locked"
    /\ lpc' = [lpc EXCEPT ![g] = IF lip[g] \in DOMAIN clients
                                 THEN "touch" ELSE "create"]
    /\ UNCHANGED <<now, clients, mu, lip, served, spc, sleepStart, todo,
                   allowed, firstCall, evictions>>
    /\ UNCHANGED <<dbvars, retries, removed, othervars, reference, lossy, enabled, raddr, sweepStart>>

\* Not found: clients[ip] = &client{...}; clients[ip].lastSeen = time.Now()
Create(g) ==
    /\ lpc[g] = "create"
    /\ clients' = Put(clients, lip[g], NewClient(now))
    /\ lpc' = [lpc EXCEPT ![g] = "allow"]
    /\ UNCHANGED <<now, mu, lip, served, spc, sleepStart, todo,
                   allowed, firstCall, evictions>>
    /\ UNCHANGED <<dbvars, retries, removed, othervars, reference, enabled, raddr, sweepStart>>
    /\ lossy' = LossyNext(lossy, reference, clients, lip[g], now)

\* Found: clients[ip].lastSeen = time.Now()
LastSeen(g) ==
    /\ lpc[g] = "touch"
    /\ clients' = [clients EXCEPT ![lip[g]].lastSeen = now]
    /\ lpc' = [lpc EXCEPT ![g] = "allow"]
    /\ UNCHANGED <<now, mu, lip, served, spc, sleepStart, todo,
                   allowed, firstCall, evictions>>
    /\ UNCHANGED <<dbvars, retries, removed, othervars, reference, lossy, enabled, raddr, sweepStart>>

\* Mutant: defer mu.Unlock() in place of the two calls of mu.Unlock(): the
\* mutex is still held when the response is written and the router runs.
Allow_DeferUnlock(g) ==
    /\ lpc[g] = "allow"
    /\ LET ip == lip[g]
           c == clients[ip]
           ok == AllowOK(c.limiter, now)
       IN  /\ clients' = Put(clients, ip,
                             [c EXCEPT !.limiter = AllowLimiter(c.limiter, now)])
           /\ lpc' = [lpc EXCEPT ![g] = IF ok THEN "next" ELSE "denied"]
           /\ allowed' = IF ok /\ ip = Watched THEN allowed + 1 ELSE allowed
           /\ firstCall' = IF ip = Watched /\ firstCall = <<>>
                           THEN <<now>> ELSE firstCall
    /\ lip' = [lip EXCEPT ![g] = NoIP]
    /\ UNCHANGED <<now, mu, served, spc, sleepStart, todo, evictions>>
    /\ UNCHANGED <<dbvars, retries, removed, othervars, lossy, enabled, raddr, sweepStart>>
    /\ reference' = ReferenceNext(reference, lip[g], now)

\* Mutant: the refused path returns without mu.Unlock().
Allow_NoUnlockOnDeny(g) ==
    /\ lpc[g] = "allow"
    /\ LET ip == lip[g]
           c == clients[ip]
           ok == AllowOK(c.limiter, now)
       IN  /\ clients' = Put(clients, ip,
                             [c EXCEPT !.limiter = AllowLimiter(c.limiter, now)])
           /\ lpc' = [lpc EXCEPT ![g] = IF ok THEN "next" ELSE "denied"]
           /\ allowed' = IF ok /\ ip = Watched THEN allowed + 1 ELSE allowed
           /\ firstCall' = IF ip = Watched /\ firstCall = <<>>
                           THEN <<now>> ELSE firstCall
           /\ mu' = IF ok THEN "free" ELSE mu
    /\ lip' = [lip EXCEPT ![g] = NoIP]
    /\ UNCHANGED <<now, served, spc, sleepStart, todo, evictions>>
    /\ UNCHANGED <<dbvars, retries, removed, othervars, lossy, enabled, raddr, sweepStart>>
    /\ reference' = ReferenceNext(reference, lip[g], now)

\* if !clients[ip].limiter.Allow() { mu.Unlock(); ... }; mu.Unlock()
Allow(g) ==
    /\ lpc[g] = "allow"
    /\ LET ip == lip[g]
           c == clients[ip]
           ok == AllowOK(c.limiter, now)
       IN  /\ clients' = Put(clients, ip,
                             [c EXCEPT !.limiter = AllowLimiter(c.limiter, now)])
           /\ lpc' = [lpc EXCEPT ![g] = IF ok THEN "next" ELSE "denied"]
           /\ allowed' = IF ok /\ ip = Watched THEN allowed + 1 ELSE allowed
           /\ firstCall' = IF ip = Watched /\ firstCall = <<>>
                           THEN <<now>> ELSE firstCall
    /\ mu' = "free"
    /\ lip' = [lip EXCEPT ![g] = NoIP]
    /\ UNCHANGED <<now, served, spc, sleepStart, todo, evictions>>
    /\ UNCHANGED <<dbvars, retries, removed, othervars, lossy, enabled, raddr, sweepStart>>
    /\ reference' = ReferenceNext(reference, lip[g], now)

\* The steps of the middleware, the critical section statement by statement.
RLStatements(CS, AS) ==
    \/ \E g \in CS :
         \/ \E addr \in AS : Arrive(g, addr)
         \/ Lock(g)
         \/ Found(g)
         \/ Create(g)
         \/ LastSeen(g)
         \/ Allow(g)
         \/ RateLimitExceeded(g)
         \/ ServeNext(g)
         \/ NextArrival(g)
    \/ Tick
    \/ SweeperWake
    \/ SweeperLock
    \/ \E ip \in IPs : SweepEntry(ip)
    \/ SweeperUnlock

\* the goroutines of net/http that serve the registration requests
Regs == {"u1", "u2"}

InitUsers ==
    /\ wg = 0
    /\ upc = [u \in Regs |-> "idle"]
    /\ uerr = [u \in Regs |-> "nil"]
    /\ uresp = [u \in Regs |-> <<>>]
    /\ bpc = [u \in Regs |-> "none"]
    /\ panicking = [u \in Regs |-> FALSE]
    /\ dones = [u \in Regs |-> 0]
    /\ entries = [u \in Regs |-> {}]
    /\ alive = TRUE

\* the goroutines of net/http that run recoverPanic, one per connection
Servers == {"k1", "k2"}

\* Nothing has been sent yet.
NoResponse == [status |-> 0, close |-> FALSE, bodies |-> <<>>]

InitPanic ==
    /\ kpc = [k \in Servers |-> "idle"]
    /\ wire = [k \in Servers |-> NoResponse]
    /\ header = [k \in Servers |-> FALSE]
    /\ plog = [k \in Servers |-> 0]
    /\ unwinding = [k \in Servers |-> FALSE]

\* serve() has been called.
InitServe ==
    /\ mpc = "start"
    /\ gpc = "none"
    /\ quit = <<>>
    /\ caught = FALSE
    /\ closing = FALSE
    /\ inflight = 0
    /\ shutres = "none"
    /\ ret = "none"
    /\ slog = {}

\* validator.New(): an empty map
New == <<>>

InitValidator ==
    /\ verrors = New
    /\ vcalls = 0
    /\ vfailed = <<>>
    /\ vfailures = 0

\* No request for the list of movies yet.
InitFilters ==
    /\ fpc = "idle"
    /\ qs = Nil
    /\ filters = Nil
    /\ ferrors = New
    /\ fstatus = 0

\* A Runtime with Go's zero value, and no call yet.
InitRuntime ==
    /\ rt = 0
    /\ rprev = 0
    /\ rinput = Nil
    /\ rsource = Nil
    /\ rerr = "none"

\* The state outside the movie handlers and the limiter when main() starts.
InitOther ==
    InitUsers /\ InitPanic /\ InitServe /\ InitValidator /\ InitFilters /\ InitRuntime

InitDB ==
    /\ store = <<>>
    /\ nextID = 1
    /\ pc = [r \in Reqs |-> "idle"]
    /\ movie = [r \in Reqs |-> Nil]
    /\ snap = [r \in Reqs |-> Nil]
    /\ result = [r \in Reqs |-> "none"]
    /\ resp = [r \in Reqs |-> <<>>]
    /\ logged = [r \in Reqs |-> 0]
    /\ call = [r \in Reqs |-> Nil]
    /\ applied = [k \in (1..MaxID) \X (1..(MaxVersion + 1)) |-> 0]
    /\ deleted = {}
    /\ removed = [i \in 1..MaxID |-> 0]
    /\ InitOther

Init == InitDB /\ retries = 0 /\ InitRL

\* A request that never reads its body is taken with one body, not with each.
AnyCreateInput == CHOOSE in \in CreateInputs : TRUE
AnyPatchInput == CHOOSE in \in PatchInputs : TRUE

\* The fields of a movie a body may hold.
InputFields == {"title", "year", "runtime", "genres"}

\* A body that passes ValidateMovie, and the body that holds no field.
ValidInput ==
    [title |-> "A", year |-> MinYear, runtime |-> 90, genres |-> <<"drama">>]

NoFields == [title |-> Nil, year |-> Nil, runtime |-> Nil, genres |-> Nil]

\* The values of each field that a valid movie can hold.
GoodTitles == {t \in Titles : ValidateMovie([ValidInput EXCEPT !.title = t])}

GoodYears == {y \in Years : ValidateMovie([ValidInput EXCEPT !.year = y])}

GoodRuntimes == {m \in Runtimes : ValidateMovie([ValidInput EXCEPT !.runtime = m])}

GoodGenres == {g \in GenreLists : ValidateMovie([ValidInput EXCEPT !.genres = g])}

\* The bodies whose every field is good, and those with one field of any
\* value, the others good.
GoodCreateBodies ==
    [title : GoodTitles, year : GoodYears, runtime : GoodRuntimes,
     genres : GoodGenres]

OneFieldCreateBodies ==
    {[ValidInput EXCEPT !.title = t] : t \in Titles}
    \cup {[ValidInput EXCEPT !.year = y] : y \in Years}
    \cup {[ValidInput EXCEPT !.runtime = m] : m \in Runtimes}
    \cup {[ValidInput EXCEPT !.genres = g] : g \in GenreLists}

\* The bodies of a POST that is served. A body with more than one bad field
\* is answered as a body with one.
CreateBodies == {in : in \in GoodCreateBodies \cup OneFieldCreateBodies}

\* The bodies whose every field given is good, and those that hold one field
\* alone, of any value.
GoodPatchBodies ==
    [title : {Nil} \cup {Ptr(t) : t \in GoodTitles},
     year : {Nil} \cup {Ptr(y) : y \in GoodYears},
     runtime : {Nil} \cup {Ptr(m) : m \in GoodRuntimes},
     genres : {Nil} \cup {Ptr(g) : g \in GoodGenres}]

OneFieldPatchBodies ==
    {[NoFields EXCEPT !.title = Ptr(t)] : t \in Titles}
    \cup {[NoFields EXCEPT !.year = Ptr(y)] : y \in Years}
    \cup {[NoFields EXCEPT !.runtime = Ptr(m)] : m \in Runtimes}
    \cup {[NoFields EXCEPT !.genres = Ptr(g)] : g \in GenreLists}

\* The bodies of a PATCH that is served.
PatchBodies == {in : in \in GoodPatchBodies \cup OneFieldPatchBodies}

\* The requests of any client, in any order.
AnyRequest(r) ==
    \/ \E how \in Hows :
          \E in \in IF how = "bad_body" THEN {AnyCreateInput} ELSE CreateBodies :
             CreateMovie(r, how, in) /\ UNCHANGED <<retries, removed, othervars, rlvars>>
    \/ \E p \in IDParams, how \in Hows :
          \E in \in IF how = "ok" /\ p \in DOMAIN store
                     THEN PatchBodies ELSE {AnyPatchInput} :
             /\ BelowMaxVersion
             /\ UpdateHandlerGet(r, p, how, in)
             /\ UNCHANGED <<retries, removed, othervars, rlvars>>
    \/ \E outcome \in Outcomes :
          UpdateHandlerUpdate(r, outcome) /\ UNCHANGED <<retries, removed, othervars, rlvars>>
    \/ \E p \in IDParams, how \in {"ok", "fault"} :
          DeleteMovie(r, p, how) /\ UNCHANGED <<retries, othervars, rlvars>>
    \/ \E p \in IDParams, how \in {"ok", "fault"} :
          ShowMovie(r, p, how) /\ UNCHANGED <<retries, removed, othervars, rlvars>>
    \/ NextRequest(r) /\ UNCHANGED <<retries, removed, othervars, rlvars>>

NextDB == \E r \in Reqs : AnyRequest(r)

SpecDB == Init /\ [][NextDB]_vars

\* Two connections that carry the requests of one client, and requests
\* whose remote address cannot be split.
SpecRL == Init /\ [][RLStep(Conns, {Watched, "unsplittable"})]_vars

\* One connection that carries the requests of every client in turn.
SpecRLClients == Init /\ [][RLStep({"g1"}, RemoteAddrs)]_vars

\* Two connections, the critical section statement by statement.
SpecRLStatements == Init /\ [][RLStatements(Conns, {Watched, "unsplittable"})]_vars

\* One connection, every client, the critical section statement by
\* statement.
SpecRLStatementsClients == Init /\ [][RLStatements({"g1"}, RemoteAddrs)]_vars

\* The command line may switch the limiter off.
InitConfig == InitDB /\ retries = 0 /\ \E e \in BOOLEAN : InitLimiter(e)

SpecRLConfig == InitConfig /\ [][RLStep(Conns, {Watched, "unsplittable"})]_vars

(***************************************************************************)
(* The middleware for as long as the server runs. The clock has no end:    *)
(* it reads MaxTime, and a minute passes by moving every time stamp back a *)
(* minute. A lastSeen or a sleep's start already at 0 stays there, its age *)
(* MaxTime, beyond the idle threshold and the sleep; a limiter whose last  *)
(* event is at 0 gets the minute's refill added to its tokens, which       *)
(* leaves what Allow computes from it as it was.                           *)
(***************************************************************************)
Back(t) == IF t > 0 THEN t - 1 ELSE 0

\* The limiter with its time stamp moved back a minute.
BackLimiter(lim) ==
    IF lim.last > 0
    THEN [lim EXCEPT !.last = lim.last - 1]
    ELSE [lim EXCEPT !.tokens = Min(lim.burst * UnitsPerToken, lim.tokens + 1)]

\* A minute passes at MaxTime.
Rebase ==
    /\ now = MaxTime
    /\ clients' = [ip \in DOMAIN clients |->
                     [limiter |-> BackLimiter(clients[ip].limiter),
                      lastSeen |-> Back(clients[ip].lastSeen)]]
    /\ sleepStart' = Back(sleepStart)
    /\ sweepStart' = Back(sweepStart)
    /\ firstCall' = IF firstCall = <<>> THEN <<>> ELSE <<Back(firstCall[1])>>
    /\ UNCHANGED <<now, mu, lpc, lip, served, spc, todo, allowed, evictions>>
    /\ UNCHANGED <<dbvars, retries, removed, othervars, lossy, enabled, raddr>>
    /\ reference' = IF reference = Nil THEN Nil ELSE BackLimiter(reference)

\* the client of the long run: its admissions are not counted
LiveAddrs == IPs \ {Watched}

NextRLLive ==
    \/ \E g \in Conns :
         \/ \E addr \in LiveAddrs : Arrive(g, addr)
         \/ Lock(g)
         \/ Found(g)
         \/ Create(g)
         \/ LastSeen(g)
         \/ Allow(g)
         \/ RateLimitExceeded(g)
         \/ ServeNext(g)
         \/ NextArrival(g)
    \/ Rebase
    \/ SweeperWake
    \/ SweeperLock
    \/ \E ip \in IPs : SweepEntry(ip)
    \/ SweeperUnlock

\* The server comes up when the clock reads MaxTime.
InitRLLive ==
    /\ InitDB /\ retries = 0
    /\ now = MaxTime
    /\ clients = <<>>
    /\ mu = "free"
    /\ lpc = [g \in Conns |-> "idle"]
    /\ lip = [g \in Conns |-> NoIP]
    /\ served = [g \in Conns |-> "none"]
    /\ spc = "sleep"
    /\ sleepStart = MaxTime
    /\ todo = {}
    /\ allowed = 0
    /\ firstCall = <<>>
    /\ evictions = 0
    /\ enabled = TRUE
    /\ raddr = [g \in Conns |-> NoAddr]
    /\ sweepStart = MaxTime
    /\ reference = Nil
    /\ lossy = FALSE

\* Time passes. A goroutine between mu.Lock() and mu.Unlock() runs on, and
\* so does the sweeper; a goroutine waiting in mu.Lock() gets the mutex
\* (sync.Mutex hands it to a waiter that has waited for long). Requests need
\* not arrive, and a response may take for ever to write.
\* Each fairness condition is subscripted with the variables its action
\* assigns; the action leaves every other variable unchanged, so a step of
\* it that changes the state changes these.
FairRL ==
    /\ WF_<<clients, sleepStart, sweepStart, firstCall, reference>>(Rebase)
    /\ WF_spc(SweeperWake)
    /\ SF_<<mu, spc, sweepStart, todo>>(SweeperLock)
    /\ WF_<<clients, evictions, todo>>(\E ip \in IPs : SweepEntry(ip))
    /\ WF_<<mu, spc, sleepStart, sweepStart>>(SweeperUnlock)
    /\ \A g \in Conns :
         /\ SF_<<mu, lpc>>(Lock(g))
         /\ WF_<<clients, lpc, lip, mu, allowed, firstCall, reference, lossy>>(
                Found(g) \/ Create(g) \/ LastSeen(g) \/ Allow(g))

SpecRLLive == InitRLLive /\ [][NextRLLive]_vars /\ FairRL

(***************************************************************************)
(* A client that sends its PATCH again after every conflict, while another *)
(* client does what it likes. The store answers the retrying client's      *)
(* calls; the other client's updates end, as no update request is taken up *)
(* once the stored version has reached MaxVersion.                         *)
(***************************************************************************)
Retrier == "r1"
Rival == "r2"
\* the record the clients contend for: the last one the id sequence hands out
Target == MaxID

\* The PATCH the retrying client sends, the same every time.
RetryInput == [title |-> Ptr("B"), year |-> Nil, runtime |-> Nil, genres |-> Nil]

\* The record the clients contend for, as createMovieHandler left it.
InitLive ==
    /\ store = [i \in {Target} |->
                  InsertRow([title |-> "A", year |-> MinYear, runtime |-> 90,
                             genres |-> <<"drama">>], Target)]
    /\ nextID = Target + 1
    /\ pc = [r \in Reqs |-> "idle"]
    /\ movie = [r \in Reqs |-> Nil]
    /\ snap = [r \in Reqs |-> Nil]
    /\ result = [r \in Reqs |-> "none"]
    /\ resp = [r \in Reqs |-> <<>>]
    /\ logged = [r \in Reqs |-> 0]
    /\ call = [r \in Reqs |-> Nil]
    /\ applied = [k \in (1..MaxID) \X (1..(MaxVersion + 1)) |-> 0]
    /\ deleted = {}
    /\ removed = [i \in 1..MaxID |-> 0]
    /\ InitOther
    /\ retries = 0
    /\ InitRL

\* The retrying client sends its PATCH: the handler reads the record.
RetrierGet ==
    UpdateHandlerGet(Retrier, Target, "ok", RetryInput)
    /\ UNCHANGED <<retries, removed, othervars, rlvars>>

\* The handler calls Update and the store answers.
RetrierUpdate ==
    UpdateHandlerUpdate(Retrier, "reply") /\ UNCHANGED <<retries, removed, othervars, rlvars>>

\* Told of a conflict, the client sends the PATCH again.
RetrierRetry ==
    /\ result[Retrier] = "ErrEditConflict"
    /\ NextRequest(Retrier)
    /\ retries' = IF retries < MaxRetries THEN retries + 1 ELSE retries
    /\ UNCHANGED <<removed, othervars, rlvars>>

RetrierStep == RetrierGet \/ RetrierUpdate \/ RetrierRetry

RivalStep ==
    \/ \E p \in IDParams, how \in Hows :
          \E in \in IF how = "ok" /\ p \in DOMAIN store
                     THEN PatchBodies ELSE {AnyPatchInput} :
             /\ BelowMaxVersion
             /\ UpdateHandlerGet(Rival, p, how, in)
             /\ UNCHANGED <<retries, removed, othervars, rlvars>>
    \/ \E outcome \in Outcomes :
          UpdateHandlerUpdate(Rival, outcome) /\ UNCHANGED <<retries, removed, othervars, rlvars>>
    \/ \E p \in IDParams, how \in {"ok", "fault"} :
          DeleteMovie(Rival, p, how) /\ UNCHANGED <<retries, othervars, rlvars>>
    \/ NextRequest(Rival) /\ UNCHANGED <<retries, removed, othervars, rlvars>>

NextLive == RetrierStep \/ RivalStep

\* The retrying client's request is served and its retry sent: the handler's
\* goroutine runs, the client does not give up.
SpecLive == InitLive /\ [][NextLive]_vars /\ WF_vars(RetrierStep)

(***************************************************************************)
(* Optimistic concurrency: the claims                                      *)
(***************************************************************************)

\* Request r has returned from MovieModel.Update.
Updated(r) == pc[r] = "done" /\ result[r] # "none"

\* Request r takes the step that calls MovieModel.Update.
UpdateStep(r) == pc[r] = "update" /\ pc'[r] = "done"

\* The version request r submits is not the one stored for its id.
Stale(r) == ~UpdateMatches(store, movie[r])

\* C1: of the Update calls made with the version v read for a record, at most
\* one ever matches; a call that returned success holds v + 1; a call that
\* returned ErrEditConflict on a record that still exists lost to exactly one
\* call that matched; two calls that read the same version never both
\* return success.
C1_OneWinner ==
    /\ \A k \in DOMAIN applied : applied[k] <= 1
    /\ \A r \in Reqs :
          /\ (Updated(r) /\ result[r] = "nil") =>
                /\ movie[r].version = snap[r].version + 1
                /\ applied[<<snap[r].id, snap[r].version>>] = 1
          /\ (Updated(r) /\ result[r] = "ErrEditConflict"
                /\ snap[r].id \notin deleted) =>
                applied[<<snap[r].id, snap[r].version>>] = 1
    /\ \A r1, r2 \in Reqs :
          (r1 # r2 /\ Updated(r1) /\ Updated(r2)
              /\ snap[r1].id = snap[r2].id
              /\ snap[r1].version = snap[r2].version) =>
          /\ ~(result[r1] = "nil" /\ result[r2] = "nil")
          /\ (result[r1] = "nil" /\ result[r2] # "fault") =>
                result[r2] = "ErrEditConflict"

\* Two requests read the same version; one returned success, the other a conflict.
C1_Witness ==
    /\ Updated("r1") /\ Updated("r2")
    /\ snap["r1"].id = snap["r2"].id
    /\ snap["r1"].version = snap["r2"].version
    /\ result["r1"] = "nil"
    /\ result["r2"] = "ErrEditConflict"

\* C2: an UPDATE that changes a row changes the very row state its writer
\* read, and leaves the writer's values with the version read plus one; as
\* long as the stored version is the one a successful writer was given, the
\* stored row holds that writer's values and nothing of a loser's.
C2_NoLostUpdate ==
    /\ [](\A r \in Reqs :
            (Updated(r) /\ result[r] = "nil" /\ movie[r].id \in DOMAIN store
                /\ store[movie[r].id].version = movie[r].version) =>
            store[movie[r].id] = movie[r])
    /\ [][\A r \in Reqs :
            (UpdateStep(r) /\ store' # store) =>
            /\ store[movie[r].id] = snap[r]
            /\ store' = [store EXCEPT ![movie[r].id] =
                            [movie[r] EXCEPT !.version = snap[r].version + 1]]]_vars

\* Two requests raced from one version with different titles; the row shows
\* the winner's title and the next version.
C2_Witness ==
    /\ C1_Witness
    /\ movie["r1"].title # movie["r2"].title
    /\ snap["r1"].id \in DOMAIN store
    /\ store[snap["r1"].id] = movie["r1"]
    /\ store[snap["r1"].id].version = snap["r1"].version + 1

\* C3: Update returns success only if the submitted version is the stored
\* one; with any other version the statement changes nothing and, its reply
\* read, Update returns ErrEditConflict.
C3_VersionGuard ==
    [][\A r \in Reqs :
        UpdateStep(r) =>
        /\ result'[r] = "nil" => ~Stale(r)
        /\ Stale(r) => (store' = store /\ result'[r] \in {"ErrEditConflict", "fault"})
        /\ (~Stale(r) /\ result'[r] # "fault") => result'[r] = "nil"]_vars

\* A stale Update returned ErrEditConflict while no other request is running.
C3_Witness ==
    /\ Updated("r1")
    /\ result["r1"] = "ErrEditConflict"
    /\ pc["r2"] = "idle"
    /\ snap["r1"].id \in DOMAIN store
    /\ store[snap["r1"].id].version # snap["r1"].version

\* C4: a row starts with version 1 under an id never used before; a step
\* leaves a row's version as it is or adds exactly 1; every successful Update
\* adds exactly 1; a row whose content changes changes its version, so no
\* version comes back for a record.
C4_VersionMonotonic ==
    [][/\ \A i \in DOMAIN store' \ DOMAIN store :
            /\ store'[i].version = 1
            /\ i \notin deleted
            /\ i = nextID /\ nextID' > nextID
       /\ \A i \in DOMAIN store \cap DOMAIN store' :
            /\ store'[i].version \in {store[i].version, store[i].version + 1}
            /\ store'[i] # store[i] => store'[i].version = store[i].version + 1
       /\ \A r \in Reqs :
            (UpdateStep(r) /\ result'[r] = "nil") =>
            store'[movie[r].id].version = store[movie[r].id].version + 1]_vars

\* A record has been updated twice since it was created.
C4_Witness ==
    \E i \in DOMAIN store : store[i].version = DefaultVersion + 2

\* C5: a successful Update leaves the stored version at the previous one
\* plus 1 and the movie's Version equal to it; a failed Update leaves the
\* movie as it was.
C5_InMemoryVersion ==
    [][\A r \in Reqs :
        UpdateStep(r) =>
        /\ result'[r] = "nil" =>
              /\ store'[movie[r].id].version = store[movie[r].id].version + 1
              /\ movie'[r].version = store'[movie[r].id].version
        /\ result'[r] # "nil" => movie'[r] = movie[r]]_vars

\* One request holds the new version after a success, the other its old one
\* after a conflict.
C5_Witness ==
    /\ C1_Witness
    /\ movie["r1"].version = snap["r1"].version + 1
    /\ movie["r2"].version = snap["r2"].version

\* C6: an Update of a record deleted since it was read never returns
\* success, returns ErrEditConflict (answered 409, not 404) when the
\* statement's reply is read, and leaves the record deleted.
C6_DeletedIsConflict ==
    /\ [](deleted \cap DOMAIN store = {})
    /\ [][\A r \in Reqs :
            (UpdateStep(r) /\ movie[r].id \in deleted) =>
            /\ result'[r] \in {"ErrEditConflict", "fault"}
            /\ result'[r] = "ErrEditConflict" => resp'[r] = <<409>>
            /\ result'[r] = "fault" => resp'[r] = <<500>>
            /\ store' = store]_vars

\* A request read a record, the record was deleted, the request's Update
\* returned ErrEditConflict.
C6_Witness ==
    \E r \in Reqs :
        /\ Updated(r)
        /\ result[r] = "ErrEditConflict"
        /\ snap[r].id \in deleted
        /\ resp[r] = <<409>>

\* C7: the client that reads the record again and sends its update again
\* after every conflict is in the end told of a success, unless the record
\* is deleted.
C7_RetrySucceeds ==
    <>(\/ Updated(Retrier) /\ result[Retrier] = "nil"
       \/ Target \in deleted)

\* The retrying client met two conflicts and then succeeded.
C7_Witness ==
    /\ retries = 2
    /\ Updated(Retrier)
    /\ result[Retrier] = "nil"
    /\ Target \in DOMAIN store

(***************************************************************************)
(* Admission control: the claims                                           *)
(***************************************************************************)

\* the configured capacity, in token units
Capacity == Burst * UnitsPerToken

\* What ip's bucket holds at time t in the map cs, refill included; a client
\* not in the map is given a full bucket.
Held(cs, ip, t) ==
    IF ip \in DOMAIN cs
    THEN Min(Capacity, cs[ip].limiter.tokens + (t - cs[ip].limiter.last))
    ELSE Capacity

\* Connection g's request gets its admission decision in this step.
AdmitStep(g) == lpc[g] = "locked" /\ lpc'[g] # "locked"

\* C8: every bucket of the map holds no less than 0 and no more than burst
\* tokens, as stored and with the refill up to now added.
C8_TokensInRange ==
    \A ip \in DOMAIN clients :
        /\ 0 <= clients[ip].limiter.tokens
        /\ clients[ip].limiter.tokens <= Capacity
        /\ 0 <= LimiterTokens(clients[ip].limiter, now)
        /\ LimiterTokens(clients[ip].limiter, now) <= Capacity

\* After a sweep that evicted a client the map holds two buckets, an empty
\* one and one with a part of a token.
C8_Witness ==
    /\ evictions > 0
    /\ DOMAIN clients = IPs
    /\ clients["a"].limiter.tokens = 0
    /\ clients["b"].limiter.tokens > 0
    /\ clients["b"].limiter.tokens < UnitsPerToken

\* C9 as stated: the requests of a client admitted since its first one never
\* exceed burst + floor(rate * time elapsed since the first one), and its
\* bucket never holds more than burst.
C9_AllowedBound ==
    /\ firstCall # <<>> =>
          allowed <= Burst + ((now - firstCall[1]) \div RefillPeriod)
    /\ Watched \in DOMAIN clients =>
          clients[Watched].limiter.tokens <= Capacity

\* C9 amended: every eviction of the client's bucket by the sweeper adds at
\* most burst, the full bucket the client's next request creates.
C9_AllowedBoundEvictions ==
    /\ firstCall # <<>> =>
          allowed <= Burst * (1 + evictions)
                       + ((now - firstCall[1]) \div RefillPeriod)
    /\ Watched \in DOMAIN clients =>
          clients[Watched].limiter.tokens <= Capacity

\* The client used up its bucket, stayed away until the sweeper evicted it,
\* and used up the new bucket.
C9_Witness ==
    /\ evictions = 1
    /\ allowed = 2 * Burst
    /\ Watched \in DOMAIN clients

\* C10: a request is admitted iff its client's bucket, refilled, holds at
\* least one token; an admitted request takes exactly one token, a refused
\* one none; of the requests a client never seen before makes in the instant
\* of its first one, those made while fewer than burst were admitted are
\* admitted and the others refused.
C10_AdmitDebits ==
    [][\A g \in Conns :
        AdmitStep(g) =>
        LET ip == lip[g]
            held == Held(clients, ip, now)
        IN  /\ lpc'[g] \in {"next", "denied"}
            /\ lpc'[g] = "next" <=> held >= UnitsPerToken
            /\ lpc'[g] = "next" => Held(clients', ip, now') = held - UnitsPerToken
            /\ lpc'[g] = "denied" => Held(clients', ip, now') = held
            /\ (ip = Watched /\ evictions = 0
                  /\ (firstCall = <<>> \/ firstCall = <<now>>)) =>
                (lpc'[g] = "next" <=> allowed < Burst)]_vars

\* In the instant of its first request a client had burst requests admitted
\* and the next one refused.
C10_Witness ==
    /\ firstCall = <<now>>
    /\ evictions = 0
    /\ allowed = Burst
    /\ \E g \in Conns : lpc[g] = "denied"

(***************************************************************************)
(* The sweeper, the configuration, the middleware chain: the claims        *)
(***************************************************************************)

\* The sweeper's pass ends in this step.
SweepEnds == spc = "sweep" /\ spc' = "sleep"

\* The minutes since the client's last request, at time t.
IdleFor(c, t) == t - c.lastSeen

\* A new bucket after its first request: full less the token of the request.
FirstDebit(t) ==
    [tokens |-> Capacity - TokensPerRequest * UnitsPerToken,
     burst |-> Burst, last |-> t]

\* C11: a bucket idle for longer than the threshold when a pass of the
\* sweeper begins is deleted when the pass examines it and absent when the
\* pass ends; the request of a client that has no bucket is admitted from a
\* new, full bucket of capacity burst.
C11_IdleEvicted ==
    [][/\ \A ip \in IPs :
            (spc = "sweep" /\ ip \in todo /\ ip \notin todo'
               /\ IdleFor(clients[ip], now) > IdleThreshold) =>
                  ip \notin DOMAIN clients'
       /\ SweepEnds =>
            \A ip \in DOMAIN clients' :
               IdleFor(clients'[ip], sweepStart) <= IdleThreshold
       /\ \A g \in Conns :
            (AdmitStep(g) /\ lip[g] \notin DOMAIN clients) =>
               /\ lpc'[g] = "next"
               /\ clients'[lip[g]].limiter = FirstDebit(now)]_vars

\* The client used up its bucket, was evicted after the idle time, and its
\* next request was admitted from a new bucket.
C11_Witness ==
    /\ evictions = 1
    /\ allowed = Burst + 1
    /\ Watched \in DOMAIN clients
    /\ clients[Watched].limiter = FirstDebit(now)
    /\ \E g \in Conns : lpc[g] = "next"

\* C12 as stated: with the limiter switched off no request is refused and
\* the map stays empty.
C12_DisabledAdmitsAll ==
    ~enabled =>
        /\ clients = <<>>
        /\ \A g \in Conns : lpc[g] # "denied" /\ served[g] # "429"

\* The request connection g is serving has a remote address that
\* net.SplitHostPort cannot split.
Unresolvable(g) == raddr[g] \notin IPs \cup {NoAddr}

\* C13: a request whose remote address gives no ip is answered 500 in the
\* step that takes it up, a step that leaves the map, its buckets and the
\* mutex as they were; the request never waits for the mutex, is never
\* refused with 429 and never reaches the router.
C13_UnresolvedIsFault ==
    /\ [](\A g \in Conns :
            Unresolvable(g) => lpc[g] = "done" /\ served[g] = "500")
    /\ [][\A g \in Conns :
            (~Unresolvable(g) /\ Unresolvable(g)') =>
                /\ clients' = clients
                /\ mu' = mu
                /\ lip' = lip]_vars

\* A request with no ip has been answered 500 while the map holds a bucket.
C13_Witness ==
    /\ \E g \in Conns : Unresolvable(g) /\ served[g] = "500"
    /\ Watched \in DOMAIN clients
    /\ clients[Watched].limiter.tokens < Capacity

\* The router has been given connection g's request.
RouterRan(g) == served[g] \in RouterOutcomes

\* C14: the router, with every route's handler, its not-found and its
\* method-not-allowed handler, is given a request only in a step that follows
\* the request's admission, and once; the request got there by an admission
\* decision that found a token; a refused request is answered 429 and is
\* over.
C14_AdmitBeforeHandler ==
    /\ [](\A g \in Conns :
            (RouterRan(g) \/ served[g] = "429") => lpc[g] = "done")
    /\ [][\A g \in Conns :
            /\ (RouterRan(g)' /\ served'[g] # served[g]) =>
                   lpc[g] = "next" /\ served[g] = "none"
            /\ (lpc'[g] = "next" /\ lpc[g] # "next") =>
                   /\ AdmitStep(g)
                   /\ Held(clients, lip[g], now) >= UnitsPerToken
            /\ (lpc[g] = "denied" /\ lpc'[g] # "denied") =>
                   lpc'[g] = "done" /\ served'[g] = "429"
            /\ (lpc[g] = "done" /\ lpc'[g] # "done") =>
                   lpc'[g] = "idle" /\ served'[g] = "none"]_vars

\* An admitted request for a route that does not exist got the router's 404
\* while a refused one got 429.
C14_Witness ==
    /\ served["g1"] = "404"
    /\ served["g2"] = "429"

\* C15: the step that decides on a request sets the lastSeen of the
\* request's client to the time of the step, whatever the decision.
C15_LastSeenUpdated ==
    [][\A g \in Conns :
        AdmitStep(g) =>
            /\ lip[g] \in DOMAIN clients'
            /\ clients'[lip[g]].lastSeen = now]_vars

\* A request was refused: the client's lastSeen is the time of the request,
\* later than the last admission.
C15_Witness ==
    /\ \E g \in Conns : lpc[g] = "denied"
    /\ Watched \in DOMAIN clients
    /\ clients[Watched].lastSeen = now
    /\ clients[Watched].limiter.last < now

\* where a goroutine is between mu.Lock() and mu.Unlock()
CriticalSection == {"locked", "create", "touch", "allow"}

\* C16: while the sweeper's pass runs the sweeper holds the mutex and no
\* request is in its critical section; a request in its critical section
\* holds the mutex and no pass runs; from the pass's first to its last entry
\* the map is changed by the pass only.
C16_SweepExcludesAdmit ==
    /\ [](/\ spc = "sweep" =>
                /\ mu = "sweeper"
                /\ \A g \in Conns : lpc[g] \notin CriticalSection
           /\ \A g \in Conns :
                lpc[g] \in CriticalSection => mu = g /\ spc # "sweep")
    /\ [][spc = "sweep" =>
            /\ clients' # clients => (spc' = "sweep" /\ todo' # todo)
            /\ \A g \in Conns : lpc'[g] \notin CriticalSection]_vars

\* The pass has deleted the watched client's entry and has another entry to
\* examine, while a request waits for the mutex.
C16_Witness ==
    /\ spc = "sweep"
    /\ todo = {"b"}
    /\ Watched \notin DOMAIN clients
    /\ evictions = 1
    /\ lpc["g1"] = "lock"

\* C17: the map gets an entry only from a request of the entry's ip in its
\* critical section and loses one only to the sweeper; an entry the map holds
\* is never replaced by a fuller bucket; the requests a never-seen client
\* makes in the instant of its first one, from whichever connections, are
\* all debited from one bucket.
C17_OneBucket ==
    /\ []((firstCall = <<now>> /\ evictions = 0) =>
            /\ Watched \in DOMAIN clients
            /\ clients[Watched].limiter.tokens
                  = Capacity - allowed * TokensPerRequest * UnitsPerToken)
    /\ [][\A ip \in IPs :
            /\ (ip \in DOMAIN clients' /\ ip \notin DOMAIN clients) =>
                  \E g \in Conns :
                     lpc[g] \in CriticalSection /\ lip[g] = ip /\ lpc'[g] # lpc[g]
            /\ (ip \in DOMAIN clients /\ ip \notin DOMAIN clients') =>
                  spc = "sweep" /\ ip \in todo
            /\ (ip \in DOMAIN clients /\ ip \in DOMAIN clients' /\ now' = now) =>
                  Held(clients', ip, now) <= Held(clients, ip, now)]_vars

\* Two connections carried the first requests of a client in the same
\* instant: both were admitted, from one bucket.
C17_Witness ==
    /\ firstCall = <<now>>
    /\ evictions = 0
    /\ allowed = 2
    /\ \A g \in Conns : lpc[g] = "next"
    /\ clients[Watched].limiter.tokens = Capacity - 2 * UnitsPerToken

\* C18: from a request's mu.Lock() to its mu.Unlock() the map and its buckets
\* are changed by that request only, so that the requests take effect one
\* after the other; of the requests a never-seen client makes in the instant
\* of its first one, burst are admitted and no more, and none is refused
\* while fewer than burst were admitted.
C18_Linearizable ==
    /\ []((firstCall = <<now>> /\ evictions = 0) =>
            /\ allowed <= Burst
            /\ (\E g \in Conns : lpc[g] = "denied" \/ served[g] = "429") =>
                   allowed = Burst)
    /\ [][\A g \in Conns :
            (lpc[g] \in CriticalSection /\ clients' # clients) =>
                /\ lpc'[g] # lpc[g]
                /\ \A h \in Conns \ {g} : lpc'[h] = lpc[h]]_vars

\* A never-seen client made burst + 2 requests in one instant over two
\* connections: burst were admitted, the two in flight are refused.
C18_Witness ==
    /\ firstCall = <<now>>
    /\ evictions = 0
    /\ allowed = Burst
    /\ \A g \in Conns : lpc[g] = "denied"

\* C19: a connection's goroutine holds the mutex exactly while it is between
\* its mu.Lock() and its mu.Unlock(): not when it writes the 500 or the 429,
\* not when the router runs, not when the request is over.
C19_NoLockAcrossIO ==
    \A g \in Conns :
        /\ mu = g <=> lpc[g] \in CriticalSection
        /\ (lpc[g] \in {"denied", "next", "done"} \/ served[g] # "none") => mu # g

\* One request is about to be given to the router while another holds the
\* mutex for its Allow.
C19_Witness ==
    /\ lpc["g1"] = "next"
    /\ lpc["g2"] = "allow"
    /\ mu = "g2"

\* C20: the mutex is free again and again, whoever held it; a request
\* waiting for the mutex gets it; the sweeper's passes never end for good.
C20_MutexReleased ==
    /\ []<>(mu = "free")
    /\ \A g \in Conns : (lpc[g] = "lock") ~> (lpc[g] = "locked")
    /\ []<>(spc = "sweep")

\* Both connections wait for the mutex while the sweeper's pass holds it.
C20_Witness ==
    /\ \A g \in Conns : lpc[g] = "lock"
    /\ mu = "sweeper"
    /\ "b" \in todo

(***************************************************************************)
(* Errors at the boundary, store calls, eviction: the claims               *)
(***************************************************************************)

\* C21: when the Update call of the update handler returns ErrEditConflict,
\* the request is answered with 409 Conflict alone, not with the 500 of the
\* server-error response, and logError is not called for it.
C21_ConflictIs409 ==
    [][\A r \in Reqs :
          (UpdateStep(r) /\ result'[r] = "ErrEditConflict") =>
          /\ resp'[r] = <<409>>
          /\ logged'[r] = 0]_vars

\* A request whose version went stale while its record still exists was
\* answered 409 and logged nothing.
C21_Witness ==
    \E r \in Reqs :
        /\ Updated(r)
        /\ result[r] = "ErrEditConflict"
        /\ snap[r].id \in DOMAIN store
        /\ store[snap[r].id].version > snap[r].version
        /\ resp[r] = <<409>>
        /\ logged[r] = 0

\* C22: a call of Update sends at most one UPDATE statement and advances the
\* record's version by at most one; a driver error other than no-row (the
\* deadline included) is what Update returns, never ErrEditConflict and
\* never success; ErrEditConflict is returned for no-row alone, success for
\* a scanned row alone.
C22_OneStatementNoRetry ==
    [][\A r \in Reqs :
          UpdateStep(r) =>
          /\ call'[r].method = "Update"
          /\ call'[r].statements <= 1
          /\ call'[r].err \notin {"nil", "sql.ErrNoRows"} => result'[r] = call'[r].err
          /\ result'[r] = "ErrEditConflict" <=> call'[r].err = "sql.ErrNoRows"
          /\ result'[r] = "nil" <=> call'[r].err = "nil"
          /\ \A i \in DOMAIN store :
                /\ i \in DOMAIN store'
                /\ store'[i].version <= store[i].version + 1]_vars

\* An Update whose statement ran but whose reply was lost to the deadline:
\* the error went back as it was and the row moved on by one version.
C22_Witness ==
    \E r \in Reqs :
        /\ Updated(r)
        /\ call[r].method = "Update"
        /\ call[r].err = "fault"
        /\ result[r] = "fault"
        /\ snap[r].id \in DOMAIN store
        /\ store[snap[r].id].version = snap[r].version + 1
        /\ applied[<<snap[r].id, snap[r].version>>] = 1
        /\ \A q \in Reqs \ {r} : pc[q] = "idle"

\* The methods of MovieModel that send a statement to the store.
StoreMethods == {"Insert", "Get", "Update", "Delete"}

\* C23: every store method that has returned, whatever it returned, ran
\* under a context of its own made from context.Background() with the
\* 3-second timeout, and has cancelled it; an Update that was called can
\* return whether the reply arrives, the call fails or the deadline passes.
C23_ContextReleased ==
    /\ \A r \in Reqs :
          call[r] # Nil =>
          /\ call[r].method \in StoreMethods
          /\ call[r].ctx.parent = "Background"
          /\ call[r].ctx.timeout = 3
          /\ call[r].ctx.cancelled
    /\ \A r \in Reqs :
          pc[r] = "update" =>
          \A outcome \in Outcomes : ENABLED UpdateHandlerUpdate(r, outcome)
    /\ \A r \in Reqs :
          Updated(r) => call[r] # Nil /\ call[r].method = "Update"

\* One request's Update ended in the deadline, the other's Get found no row;
\* both contexts are cancelled.
C23_Witness ==
    \E r, q \in Reqs :
        /\ Updated(r)
        /\ call[r].method = "Update"
        /\ call[r].err = "fault"
        /\ call[r].ctx.cancelled
        /\ pc[q] = "done"
        /\ call[q] # Nil
        /\ call[q].method = "Get"
        /\ call[q].err = "sql.ErrNoRows"
        /\ call[q].ctx.cancelled

\* C24 as stated: the update handler answers a PATCH for an id that has no
\* record with the 404 response alone, and stops: nothing else is written,
\* nothing is logged, Update is not called and the store is left as it was.
C24_MissingIsOne404 ==
    [][\A r \in Reqs, p \in IDParams, how \in {"ok", "bad_body"} :
          (/\ p >= 1
           /\ p \notin DOMAIN store
           /\ UpdateHandlerGet(r, p, how, AnyPatchInput)) =>
          /\ resp'[r] = <<404>>
          /\ logged'[r] = 0
          /\ pc'[r] = "done"
          /\ result'[r] = "none"
          /\ store' = store]_vars

\* C25 as stated: on the show, update and delete routes an id parameter that
\* readIDParam rejects (no integer, or less than 1) is answered 404 alone
\* and no store method is called.
C25_BadIdIs404 ==
    [][\A r \in Reqs, p \in IDParams, how \in Hows :
          (/\ p < 1
           /\ \/ ShowMovie(r, p, how)
              \/ DeleteMovie(r, p, how)
              \/ UpdateHandlerGet(r, p, how, AnyPatchInput)) =>
          /\ resp'[r] = <<404>>
          /\ call'[r] = Nil
          /\ store' = store]_vars

C27_OtherBucketsUntouched ==
    [][\A g \in Conns :
          AdmitStep(g) =>
          /\ \A ip \in DOMAIN clients \ {lip[g]} :
                /\ ip \in DOMAIN clients'
                /\ clients'[ip] = clients[ip]
          /\ lpc'[g] = "denied" <=>
                Held(clients, lip[g], now) < TokensPerRequest * UnitsPerToken]_vars

\* The watched client's bucket is used up and its entry is in the map; the
\* other client's first request has just been admitted from a full bucket.
C27_Witness ==
    /\ Watched \in DOMAIN clients
    /\ Held(clients, Watched, now) < TokensPerRequest * UnitsPerToken
    /\ allowed = Burst
    /\ evictions = 0
    /\ lpc["g1"] = "next"
    /\ "b" \in DOMAIN clients
    /\ clients["b"] = [limiter |-> FirstDebit(now), lastSeen |-> now]

\* The limiter with no sweeper admits the request decided at time t.
ReferenceOK(t) == AllowOK(ReferenceLimiter(reference, t), t)

\* C28 as stated: every request of the client is admitted with the sweeper
\* running iff the same limiter with no sweeper admits it.
C28_EvictionTransparent ==
    [][\A g \in Conns :
          (AdmitStep(g) /\ lip[g] = Watched) =>
             (lpc'[g] = "next" <=> ReferenceOK(now))]_vars

\* C28 amended: a request the limiter with no sweeper admits is admitted; the
\* two decide alike as long as every limiter made anew after an eviction
\* replaced one that had refilled to full by then, and so as long as the
\* client was never evicted.
C28_TransparentWhenRefilled ==
    /\ [](evictions = 0 => ~lossy)
    /\ [][\A g \in Conns :
             (AdmitStep(g) /\ lip[g] = Watched) =>
                /\ ReferenceOK(now) => lpc'[g] = "next"
                /\ ~lossy' => (lpc'[g] = "next" <=> ReferenceOK(now))]_vars

\* The client made one request, was evicted with its bucket full again, and
\* made a second one: the new limiter is what the old one would be.
C28_Witness ==
    /\ evictions = 1
    /\ ~lossy
    /\ allowed = 2
    /\ Watched \in DOMAIN clients
    /\ clients[Watched].limiter = reference
    /\ \E g \in Conns : lpc[g] = "next"

\* The version stored under id i changes in this step.
VersionChanges(i) ==
    /\ i \in DOMAIN store
    /\ i \in DOMAIN store'
    /\ store'[i].version # store[i].version

\* C29 as stated: an Update that returns anything but success leaves the
\* table as it was, and a stored version changes only in the step of an
\* Update that returns success.
C29_FailureLeavesStore ==
    [][/\ \A r \in Reqs :
            (UpdateStep(r) /\ result'[r] # "nil") => store' = store
       /\ \A i \in 1..MaxID :
            VersionChanges(i) =>
               \E r \in Reqs :
                  UpdateStep(r) /\ movie[r].id = i /\ result'[r] = "nil"]_vars

\* C29 amended: an Update that returns ErrEditConflict leaves the table as it
\* was; one that returns another error leaves it as it was or, its statement
\* applied and the reply lost, with the caller's values in the row it read
\* and that row's version plus one; a stored version changes only in the
\* step of an Update that returns success or such an error, never a
\* conflict.
C29_ConflictLeavesStore ==
    [][/\ \A r \in Reqs :
            UpdateStep(r) =>
               /\ result'[r] = "ErrEditConflict" => store' = store
               /\ result'[r] \notin {"nil", "ErrEditConflict"} =>
                     \/ store' = store
                     \/ /\ store[movie[r].id] = snap[r]
                        /\ store' = [store EXCEPT ![movie[r].id] =
                              [movie[r] EXCEPT !.version = snap[r].version + 1]]
       /\ \A i \in 1..MaxID :
            VersionChanges(i) =>
               \E r \in Reqs :
                  /\ UpdateStep(r)
                  /\ movie[r].id = i
                  /\ result'[r] # "ErrEditConflict"]_vars

\* Two requests read the same version. The statement of the first was
\* applied and its reply lost; the second was told of a conflict and the row
\* still holds the first one's values.
C29_Witness ==
    /\ Updated("r1")
    /\ Updated("r2")
    /\ snap["r1"] = snap["r2"]
    /\ result["r1"] = "fault"
    /\ result["r2"] = "ErrEditConflict"
    /\ movie["r1"].title # movie["r2"].title
    /\ snap["r1"].id \in DOMAIN store
    /\ store[snap["r1"].id] = [movie["r1"] EXCEPT !.version = snap["r1"].version + 1]

\* C30: the record the update handler gives to Update is the row Get
\* returned with every field the body holds set to the body's value and
\* every other field, id and version included, left as read; a request whose
\* body cannot be read, or whose record so built fails the validation, ends
\* with 400 or 422, its Update never called and the table as it was.
C30_BuiltOnSnapshot ==
    /\ [](\A r \in Reqs :
            pc[r] = "update" =>
               /\ ValidateMovie(movie[r])
               /\ movie[r].id = snap[r].id
               /\ movie[r].version = snap[r].version)
    /\ [][\A r \in Reqs :
            (pc[r] = "idle" /\ pc'[r] = "update") =>
               /\ snap'[r].id \in DOMAIN store
               /\ snap'[r] = store[snap'[r].id]
               /\ \A in \in PatchBodies :
                     (/\ movie'[r] = ApplyInput(snap'[r], in)
                      /\ UpdateHandlerGet(r, snap'[r].id, "ok", in)) =>
                        \A f \in InputFields :
                           movie'[r][f] = IF in[f] = Nil THEN snap'[r][f]
                                          ELSE in[f][1]]_vars
    /\ [][\A r \in Reqs :
            (pc[r] = "idle" /\ pc'[r] = "done") =>
               /\ \A p \in DOMAIN store :
                     UpdateHandlerGet(r, p, "bad_body", AnyPatchInput) =>
                        resp'[r] = <<400>>
               /\ resp'[r] \in {<<400>>, <<422>>} =>
                     /\ result'[r] = "none"
                     /\ store' = store]_vars
    /\ [][\A r \in Reqs :
            (pc[r] = "done" /\ result[r] = "none") => result'[r] = "none"]_vars

\* A request that gave a new title alone is about to call Update with the
\* year, runtime and genres it read.
C30_Witness ==
    \E r \in Reqs :
        /\ pc[r] = "update"
        /\ movie[r].title # snap[r].title
        /\ movie[r].year = snap[r].year
        /\ movie[r].runtime = snap[r].runtime
        /\ movie[r].genres = snap[r].genres
        /\ store[snap[r].id] = snap[r]

(***************************************************************************)
(* Delete, background tasks, panics, shutdown, filters, the validator and  *)
(* the runtime encoding: the claims                                        *)
(***************************************************************************)

\* C31: Delete of a record that exists removes it, leaves every other row as
\* it was and is answered 200; Delete of an id below 1 or of an id that has
\* no row returns ErrRecordNotFound, answered 404, and changes nothing; of
\* the Deletes of one record, whatever their order, one alone returns nil.
C31_DeleteOnce ==
    /\ [](/\ \A i \in 1..MaxID :
                /\ removed[i] <= 1
                /\ i \in DOMAIN store => removed[i] = 0
          /\ \A p \in IDParams :
                DeleteErr(store, p) =
                   IF p >= 1 /\ p \in DOMAIN store THEN "nil"
                   ELSE "ErrRecordNotFound")
    /\ [][\A r \in Reqs :
            (pc[r] = "idle" /\ pc'[r] = "done") =>
               \A p \in IDParams :
                  DeleteMovie(r, p, "ok") =>
                     IF p \in DOMAIN store
                     THEN /\ resp'[r] = <<200>>
                          /\ DOMAIN store' = DOMAIN store \ {p}
                          /\ \A i \in DOMAIN store' : store'[i] = store[i]
                          /\ removed'[p] = 1
                     ELSE /\ resp'[r] = <<404>>
                          /\ store' = store
                          /\ removed' = removed]_vars

\* Two requests have each sent a DELETE statement for the one record there
\* was: one was answered 200, the other 404.
C31_Witness ==
    \E r1, r2 \in Reqs :
        /\ pc[r1] = "done" /\ pc[r2] = "done"
        /\ call[r1] # Nil /\ call[r1].method = "Delete" /\ call[r1].err = "nil"
        /\ call[r2] # Nil /\ call[r2].method = "Delete" /\ call[r2].err = "nil"
        /\ resp[r1] = <<200>>
        /\ resp[r2] = <<404>>
        /\ nextID = 2
        /\ store = <<>>
        /\ removed[1] = 1

(***************************************************************************)
(* cmd/api: registerUserHandler and background()                           *)
(***************************************************************************)

\* How the handler's steps before background() end: "ok"; "bad_body",
\* readJSON fails; "hash", Password.Set fails; "invalid", ValidateUser finds
\* a failed check; "duplicate", Insert returns ErrDuplicateEmail; "fault",
\* Insert returns any other error.
UserHows == {"ok", "bad_body", "hash", "invalid", "duplicate", "fault"}

\* How mailer.Send ends: it returns nil, returns an error, or panics.
SendOutcomes == {"nil", "error", "panic"}

\* Mutant of sync.WaitGroup.Add as background() calls it: the call is missing.
WgAdd_Missing(w, delta) == w

\* sync.WaitGroup.Add
WgAdd(w, delta) == w + delta

\* Mutant of the deferred function of background(): it does not call recover().
Recover_Missing(p) == [panicking |-> p, logs |-> FALSE]

\* The deferred function of background(): recover() ends a panic, and the
\* recovered value is logged.
Recover(p) == [panicking |-> FALSE, logs |-> p]

\* What registerUserHandler answers when it ends before Insert succeeded.
RegisterFailure(how) ==
    CASE how = "bad_body" -> badRequestResponse
      [] how = "hash" -> serverErrorResponse
      [] how = "invalid" -> failedValidationResponse
      [] how = "duplicate" -> failedValidationResponse
      [] how = "fault" -> serverErrorResponse

\* The handler writes the response rs.
Respond(u, rs) ==
    /\ uresp' = [uresp EXCEPT ![u] = Append(@, rs.status)]
    /\ entries' = [entries EXCEPT
                      ![u] = IF rs.logs THEN @ \cup {"serverErrorResponse"} ELSE @]

\* registerUserHandler up to the return of Insert.
RegisterInsert(u, how) ==
    /\ alive
    /\ upc[u] = "idle"
    /\ IF how = "ok"
       THEN /\ upc' = [upc EXCEPT ![u] = "inserted"]
            /\ UNCHANGED <<uresp, entries>>
       ELSE /\ upc' = [upc EXCEPT ![u] = "done"]
            /\ Respond(u, RegisterFailure(how))
    /\ uerr' = [uerr EXCEPT ![u] = IF how = "ok" THEN "nil" ELSE how]
    /\ UNCHANGED <<wg, bpc, panicking, dones, alive>>

\* background(): app.wg.Add(1)
BackgroundAdd(u) ==
    /\ alive
    /\ upc[u] = "inserted"
    /\ upc' = [upc EXCEPT ![u] = "added"]
    /\ wg' = WgAdd(wg, 1)
    /\ UNCHANGED <<uerr, uresp, bpc, panicking, dones, entries, alive>>

\* background(): the go statement; background() returns to the handler.
BackgroundGo(u) ==
    /\ alive
    /\ upc[u] = "added"
    /\ upc' = [upc EXCEPT ![u] = "spawned"]
    /\ bpc' = [bpc EXCEPT ![u] = "fn"]
    /\ UNCHANGED <<wg, uerr, uresp, panicking, dones, entries, alive>>

\* The handler: err = app.writeJSON(w, http.StatusAccepted, ...)
WriteAccepted(u) ==
    /\ alive
    /\ upc[u] = "spawned"
    /\ upc' = [upc EXCEPT ![u] = "written"]
    /\ uerr' = [uerr EXCEPT ![u] = "nil"]
    /\ Respond(u, writeJSON(202))
    /\ UNCHANGED <<wg, bpc, panicking, dones, alive>>

\* The handler: if err != nil { app.serverErrorResponse(w, r, err) }
CheckErr(u) ==
    /\ alive
    /\ upc[u] = "written"
    /\ upc' = [upc EXCEPT ![u] = "done"]
    /\ IF uerr[u] # "nil"
       THEN Respond(u, serverErrorResponse)
       ELSE UNCHANGED <<uresp, entries>>
    /\ UNCHANGED <<wg, uerr, bpc, panicking, dones, alive>>

\* The function passed to background(): err = app.mailer.Send(...). The
\* variable is the handler's err, which the function literal captures.
TaskSend(u, outcome) ==
    /\ alive
    /\ bpc[u] = "fn"
    /\ IF outcome = "panic"
       THEN /\ bpc' = [bpc EXCEPT ![u] = "deferred"]
            /\ panicking' = [panicking EXCEPT ![u] = TRUE]
            /\ UNCHANGED uerr
       ELSE /\ bpc' = [bpc EXCEPT ![u] = "assigned"]
            /\ uerr' = [uerr EXCEPT ![u] = IF outcome = "nil" THEN "nil" ELSE "send"]
            /\ UNCHANGED panicking
    /\ UNCHANGED <<wg, upc, uresp, dones, entries, alive>>

\* The function: if err != nil
TaskCheck(u) ==
    /\ alive
    /\ bpc[u] = "assigned"
    /\ bpc' = [bpc EXCEPT ![u] = IF uerr[u] # "nil" THEN "logging" ELSE "deferred"]
    /\ UNCHANGED <<wg, upc, uerr, uresp, panicking, dones, entries, alive>>

\* The function: app.logger.Error(err.Error()). It reads err again: when the
\* handler has stored the nil of writeJSON since the test, the call of
\* Error() on the nil interface panics.
TaskLog(u) ==
    /\ alive
    /\ bpc[u] = "logging"
    /\ bpc' = [bpc EXCEPT ![u] = "deferred"]
    /\ IF uerr[u] = "nil"
       THEN /\ panicking' = [panicking EXCEPT ![u] = TRUE]
            /\ UNCHANGED entries
       ELSE /\ entries' = [entries EXCEPT ![u] = @ \cup {"send"}]
            /\ UNCHANGED panicking
    /\ UNCHANGED <<wg, upc, uerr, uresp, dones, alive>>

\* The deferred function that calls recover(): it runs first.
TaskRecover(u) ==
    /\ alive
    /\ bpc[u] = "deferred"
    /\ bpc' = [bpc EXCEPT ![u] = "done"]
    /\ panicking' = [panicking EXCEPT ![u] = Recover(panicking[u]).panicking]
    /\ entries' = [entries EXCEPT
                      ![u] = IF Recover(panicking[u]).logs THEN @ \cup {"recover"} ELSE @]
    /\ UNCHANGED <<wg, upc, uerr, uresp, dones, alive>>

\* defer app.wg.Done(): it runs last, and the goroutine ends. A panic that
\* is still unwinding then ends the process.
TaskDone(u) ==
    /\ alive
    /\ bpc[u] = "done"
    /\ bpc' = [bpc EXCEPT ![u] = "ended"]
    /\ wg' = wg - 1
    /\ dones' = [dones EXCEPT ![u] = @ + 1]
    /\ alive' = ~panicking[u]
    /\ UNCHANGED <<upc, uerr, uresp, panicking, entries>>

\* net/http serves the connection's next request. The model follows the
\* task of a request to its end before it takes the next.
NextRegistration(u) ==
    /\ alive
    /\ upc[u] = "done"
    /\ bpc[u] \in {"none", "ended"}
    /\ upc' = [upc EXCEPT ![u] = "idle"]
    /\ uerr' = [uerr EXCEPT ![u] = "nil"]
    /\ uresp' = [uresp EXCEPT ![u] = <<>>]
    /\ bpc' = [bpc EXCEPT ![u] = "none"]
    /\ dones' = [dones EXCEPT ![u] = 0]
    /\ entries' = [entries EXCEPT ![u] = {}]
    /\ UNCHANGED <<wg, panicking, alive>>

\* What a registration request leaves alone.
outsideUsers == <<dbvars, retries, removed, rlvars, panicvars, servevars,
                  validatorvars, filtervars, runtimevars>>

NextUsers ==
    \E u \in Regs :
       \/ \E how \in UserHows :
             RegisterInsert(u, how) /\ UNCHANGED outsideUsers
       \/ BackgroundAdd(u) /\ UNCHANGED outsideUsers
       \/ BackgroundGo(u) /\ UNCHANGED outsideUsers
       \/ WriteAccepted(u) /\ UNCHANGED outsideUsers
       \/ CheckErr(u) /\ UNCHANGED outsideUsers
       \/ \E outcome \in SendOutcomes :
             TaskSend(u, outcome) /\ UNCHANGED outsideUsers
       \/ TaskCheck(u) /\ UNCHANGED outsideUsers
       \/ TaskLog(u) /\ UNCHANGED outsideUsers
       \/ TaskRecover(u) /\ UNCHANGED outsideUsers
       \/ TaskDone(u) /\ UNCHANGED outsideUsers
       \/ NextRegistration(u) /\ UNCHANGED outsideUsers

SpecUsers == Init /\ [][NextUsers]_vars

\* C32: once the user is inserted, the handler writes the 202 response and
\* no other, whatever mailer.Send does and whenever its goroutine runs.
C32_SendNeverChangesResponse ==
    [](\A u \in Regs :
          (upc[u] = "done" /\ bpc[u] # "none") => uresp[u] = <<202>>)

\* C33: the wait group counts the tasks that background() has added and
\* that have not ended: Add comes before the goroutine starts, Done is
\* called once, when the goroutine ends, after a return and after a panic
\* alike; a panic of the function is recovered and logged, and the process
\* lives on.
C33_BackgroundCounted ==
    /\ [](/\ alive
          /\ wg = Cardinality({u \in Regs :
                                  \/ upc[u] = "added"
                                  \/ bpc[u] \in {"fn", "assigned", "logging",
                                                 "deferred", "done"}})
          /\ \A u \in Regs :
                /\ dones[u] = IF bpc[u] = "ended" THEN 1 ELSE 0
                /\ bpc[u] \in {"done", "ended"} => ~panicking[u])
    /\ [][\A u \in Regs :
            /\ (bpc[u] = "none" /\ bpc'[u] # "none") => upc[u] = "added" /\ wg >= 1
            /\ (panicking[u] /\ ~panicking'[u] /\ bpc[u] = "deferred") =>
                  "recover" \in entries'[u]
            /\ (bpc[u] # "ended" /\ bpc'[u] = "ended") => wg' = wg - 1]_vars

\* A task whose function panicked has ended: the panic is in the log, the
\* counter is back at 0 and the process runs.
C33_Witness ==
    \E u \in Regs :
        /\ bpc[u] = "ended"
        /\ "recover" \in entries[u]
        /\ dones[u] = 1
        /\ wg = 0
        /\ alive

(***************************************************************************)
(* cmd/api: recoverPanic around the limiter, the router and the handlers   *)
(***************************************************************************)

\* The responses a handler may have written when it returns or panics.
HandlerResponses == {writeJSON(200), notFoundResponse}

\* Mutant of recoverPanic: the header is not set.
SetConnectionClose_Missing(h) == h

\* w.Header().Set("Connection", "close")
SetConnectionClose(h) == TRUE

\* writeJSON on the http.ResponseWriter: the first WriteHeader sends the
\* status line with the headers as they are then; a later one is ignored;
\* every Write adds its document to the body.
WriteResponse(w, h, status) ==
    IF w.status = 0
    THEN [status |-> status, close |-> h, bodies |-> <<status>>]
    ELSE [w EXCEPT !.bodies = Append(@, status)]

\* recoverPanic: the function is deferred and next.ServeHTTP(w, r) is called.
ServeHTTP(k) ==
    /\ kpc[k] = "idle"
    /\ kpc' = [kpc EXCEPT ![k] = "next"]
    /\ UNCHANGED <<wire, header, plog, unwinding>>

\* The limiter, the router or the handler writes a response.
HandlerRespond(k, rs) ==
    /\ kpc[k] = "next"
    /\ kpc' = [kpc EXCEPT ![k] = "wrote"]
    /\ wire' = [wire EXCEPT ![k] = WriteResponse(@, header[k], rs.status)]
    /\ plog' = [plog EXCEPT ![k] = IF rs.logs THEN @ + 1 ELSE @]
    /\ UNCHANGED <<header, unwinding>>

\* next.ServeHTTP returns.
HandlerReturn(k) ==
    /\ kpc[k] = "wrote"
    /\ kpc' = [kpc EXCEPT ![k] = "deferred"]
    /\ UNCHANGED <<wire, header, plog, unwinding>>

\* next.ServeHTTP panics: before anything was written, or after a response,
\* as updateMovieHandler does after its notFoundResponse.
HandlerPanic(k) ==
    /\ kpc[k] \in {"next", "wrote"}
    /\ kpc' = [kpc EXCEPT ![k] = "deferred"]
    /\ unwinding' = [unwinding EXCEPT ![k] = TRUE]
    /\ UNCHANGED <<wire, header, plog>>

\* The deferred function of recoverPanic: after a panic it sets the header
\* and calls serverErrorResponse.
RecoverPanic(k) ==
    /\ kpc[k] = "deferred"
    /\ kpc' = [kpc EXCEPT ![k] = "done"]
    /\ IF unwinding[k]
       THEN /\ header' = [header EXCEPT ![k] = SetConnectionClose(@)]
            /\ plog' = [plog EXCEPT ![k] = IF serverErrorResponse.logs THEN @ + 1 ELSE @]
            /\ wire' = [wire EXCEPT
                           ![k] = WriteResponse(@, header'[k], serverErrorResponse.status)]
            /\ unwinding' = [unwinding EXCEPT ![k] = FALSE]
       ELSE UNCHANGED <<wire, header, plog, unwinding>>

\* net/http serves the next request.
NextServe(k) ==
    /\ kpc[k] = "done"
    /\ kpc' = [kpc EXCEPT ![k] = "idle"]
    /\ wire' = [wire EXCEPT ![k] = NoResponse]
    /\ header' = [header EXCEPT ![k] = FALSE]
    /\ plog' = [plog EXCEPT ![k] = 0]
    /\ UNCHANGED unwinding

\* What recoverPanic leaves alone.
outsidePanic == <<dbvars, retries, removed, rlvars, uservars, servevars,
                  validatorvars, filtervars, runtimevars>>

NextPanic ==
    \E k \in Servers :
       \/ ServeHTTP(k) /\ UNCHANGED outsidePanic
       \/ \E rs \in HandlerResponses : HandlerRespond(k, rs) /\ UNCHANGED outsidePanic
       \/ HandlerReturn(k) /\ UNCHANGED outsidePanic
       \/ HandlerPanic(k) /\ UNCHANGED outsidePanic
       \/ RecoverPanic(k) /\ UNCHANGED outsidePanic
       \/ NextServe(k) /\ UNCHANGED outsidePanic

SpecPanic == Init /\ [][NextPanic]_vars

\* The handler has panicked and the deferred function has yet to run.
PanicPending(k) == kpc[k] = "deferred" /\ unwinding[k]

MaxInflight == 2

\* quit := make(chan os.Signal, 1)
QuitCapacity == 1

\* signal.Notify(quit, syscall.SIGINT, syscall.SIGTERM)
Signals == {"SIGINT", "SIGTERM"}

\* s.String()
SignalString(sig) == IF sig = "SIGINT" THEN "interrupt" ELSE "terminated"

\* The messages of app.logger.Info("shutting down server", "signal", s.String())
ShuttingDown(sig) ==
    IF SignalString(sig) = "interrupt"
    THEN "shutting down server signal=interrupt"
    ELSE "shutting down server signal=terminated"

\* What srv.Shutdown(ctx) may return: nil once no request is being served;
\* otherwise the error of its context, whose deadline is 30 seconds away,
\* or at any time the error of closing a listener.
ShutdownResults == {"nil", "error"}

\* Mutant of serve(): the value received from shutdownError is dropped.
ServeResult_IgnoreError(res) == "nil"

\* serve(): err = <-shutdownError; if err != nil { return err }; return nil
ServeResult(res) == IF res # "nil" THEN "shutdown error" ELSE "nil"

\* serve(): go func() { ... }()
GoSignals ==
    /\ mpc = "start"
    /\ mpc' = "go"
    /\ gpc' = "start"
    /\ UNCHANGED <<quit, caught, closing, inflight, shutres, ret, slog>>

\* serve(): app.logger.Info("starting server", ...), srv.ListenAndServe()
ListenAndServe ==
    /\ mpc = "go"
    /\ mpc' = "listening"
    /\ slog' = slog \cup {"starting server"}
    /\ UNCHANGED <<gpc, quit, caught, closing, inflight, shutres, ret>>

\* ListenAndServe returns an error that is not ErrServerClosed, and serve()
\* returns it.
ListenError ==
    /\ mpc = "listening"
    /\ ~closing
    /\ mpc' = "returned"
    /\ ret' = "listen error"
    /\ UNCHANGED <<gpc, quit, caught, closing, inflight, shutres, slog>>

\* ListenAndServe returns ErrServerClosed: Shutdown has been called.
ListenClosed ==
    /\ mpc = "listening"
    /\ closing
    /\ mpc' = "waiting"
    /\ UNCHANGED <<gpc, quit, caught, closing, inflight, shutres, ret, slog>>

\* The server takes a request, and a request ends.
RequestStart ==
    /\ mpc = "listening"
    /\ ~closing
    /\ inflight < MaxInflight
    /\ inflight' = inflight + 1
    /\ UNCHANGED <<mpc, gpc, quit, caught, closing, shutres, ret, slog>>

RequestEnd ==
    /\ mpc \in {"listening", "waiting"}
    /\ inflight > 0
    /\ inflight' = inflight - 1
    /\ UNCHANGED <<mpc, gpc, quit, caught, closing, shutres, ret, slog>>

\* The goroutine: quit := make(chan os.Signal, 1); signal.Notify(quit, ...)
Notify ==
    /\ gpc = "start"
    /\ gpc' = "quit"
    /\ UNCHANGED <<mpc, quit, caught, closing, inflight, shutres, ret, slog>>

\* SIGINT or SIGTERM arrives: the runtime relays it to quit, and drops it
\* when the channel is full.
Signal(sig) ==
    /\ gpc \notin {"none", "start"}
    /\ mpc # "returned"
    /\ quit' = IF Len(quit) < QuitCapacity THEN Append(quit, sig) ELSE quit
    /\ caught' = TRUE
    /\ UNCHANGED <<mpc, gpc, closing, inflight, shutres, ret, slog>>

\* The goroutine: s := <-quit; app.logger.Info("shutting down server", ...)
ReceiveQuit ==
    /\ gpc = "quit"
    /\ quit # <<>>
    /\ quit' = Tail(quit)
    /\ gpc' = "shutdown"
    /\ slog' = slog \cup {ShuttingDown(Head(quit))}
    /\ UNCHANGED <<mpc, caught, closing, inflight, shutres, ret>>

\* The goroutine calls srv.Shutdown(ctx): the listeners close.
Shutdown ==
    /\ gpc = "shutdown"
    /\ gpc' = "draining"
    /\ closing' = TRUE
    /\ UNCHANGED <<mpc, quit, caught, inflight, shutres, ret, slog>>

\* srv.Shutdown returns, and the goroutine is at shutdownError <- ...
ShutdownReturns(res) ==
    /\ gpc = "draining"
    /\ res = "nil" => inflight = 0
    /\ gpc' = "send"
    /\ shutres' = res
    /\ UNCHANGED <<mpc, quit, caught, closing, inflight, ret, slog>>

\* The value passes through the unbuffered channel shutdownError: the
\* goroutine ends, and serve() returns.
ReceiveShutdownError ==
    /\ gpc = "send"
    /\ mpc = "waiting"
    /\ gpc' = "ended"
    /\ mpc' = "returned"
    /\ ret' = ServeResult(shutres)
    /\ slog' = IF ServeResult(shutres) = "nil" THEN slog \cup {"stopped server"} ELSE slog
    /\ UNCHANGED <<quit, caught, closing, inflight, shutres>>

\* What serve() leaves alone.
outsideServe == <<dbvars, retries, removed, rlvars, uservars, panicvars,
                  validatorvars, filtervars, runtimevars>>

NextServing ==
    \/ GoSignals /\ UNCHANGED outsideServe
    \/ ListenAndServe /\ UNCHANGED outsideServe
    \/ ListenError /\ UNCHANGED outsideServe
    \/ ListenClosed /\ UNCHANGED outsideServe
    \/ RequestStart /\ UNCHANGED outsideServe
    \/ RequestEnd /\ UNCHANGED outsideServe
    \/ Notify /\ UNCHANGED outsideServe
    \/ \E sig \in Signals : Signal(sig) /\ UNCHANGED outsideServe
    \/ ReceiveQuit /\ UNCHANGED outsideServe
    \/ Shutdown /\ UNCHANGED outsideServe
    \/ \E res \in ShutdownResults : ShutdownReturns(res) /\ UNCHANGED outsideServe
    \/ ReceiveShutdownError /\ UNCHANGED outsideServe

\* The scheduler runs a goroutine that can take a step, and srv.Shutdown
\* returns, at its context's deadline at the latest. No signal need arrive,
\* no request need end and ListenAndServe need not fail.
FairServe ==
    /\ WF_vars(GoSignals /\ UNCHANGED outsideServe)
    /\ WF_vars(ListenAndServe /\ UNCHANGED outsideServe)
    /\ WF_vars(ListenClosed /\ UNCHANGED outsideServe)
    /\ WF_vars(Notify /\ UNCHANGED outsideServe)
    /\ WF_vars(ReceiveQuit /\ UNCHANGED outsideServe)
    /\ WF_vars(Shutdown /\ UNCHANGED outsideServe)
    /\ WF_vars(\E res \in ShutdownResults :
                  ShutdownReturns(res) /\ UNCHANGED outsideServe)
    /\ WF_vars(ReceiveShutdownError /\ UNCHANGED outsideServe)

SpecServe == Init /\ [][NextServing]_vars /\ FairServe

\* C35: once a signal has been relayed, serve() returns in the end; it
\* returns what Shutdown gave, and never before Shutdown has returned and
\* its result has passed through shutdownError: the error when there is
\* one, and nil, after logging "stopped server", when Shutdown returned nil;
\* an error of ListenAndServe other than ErrServerClosed is returned at
\* once, signal or no signal.
C35_ServeReturns ==
    /\ caught ~> (mpc = "returned")
    /\ [](/\ mpc # "returned" <=> ret = "none"
          /\ ret = "nil" => shutres = "nil" /\ gpc = "ended"
          /\ ret = "shutdown error" => shutres = "error" /\ gpc = "ended"
          /\ "stopped server" \in slog <=> ret = "nil")
    /\ [][(mpc # "returned" /\ mpc' = "returned") =>
             IF mpc = "listening"
             THEN /\ ~closing
                  /\ ret' = "listen error"
                  /\ UNCHANGED <<gpc, quit, caught, shutres>>
             ELSE /\ caught
                  /\ closing
                  /\ shutres \in ShutdownResults
                  /\ ret' = IF shutres = "nil" THEN "nil" ELSE "shutdown error"]_vars

\* SIGTERM came while a request was being served; the request ended,
\* Shutdown returned nil and serve() returned nil after its three messages.
C35_Witness ==
    /\ mpc = "returned"
    /\ ret = "nil"
    /\ shutres = "nil"
    /\ gpc = "ended"
    /\ slog = {"starting server", "shutting down server signal=terminated",
               "stopped server"}

(***************************************************************************)
(* internal/validator: Validator                                           *)
(***************************************************************************)

\* calls of Check and AddError on one Validator
MaxCalls == 4

\* The keys and messages of the checks of ValidateFilters.
Keys == {"page", "page_size", "sort"}

Messages == {"must be greater than 0", "must be a maximum of 100",
             "must be an integer value"}

\* The map m with key -> value stored.
MapSet(m, key, value) ==
    [k \in DOMAIN m \cup {key} |-> IF k = key THEN value ELSE m[k]]

\* Validator.Valid
Valid(errors) == Cardinality(DOMAIN errors) = 0

\* Mutant of Validator.AddError: the entry is stored in any case.
AddError_Overwrite(errors, key, message) == MapSet(errors, key, message)

\* Validator.AddError
AddError(errors, key, message) ==
    IF key \notin DOMAIN errors THEN MapSet(errors, key, message) ELSE errors

\* Validator.Check
Check(errors, ok, key, message) ==
    IF ~ok THEN AddError(errors, key, message) ELSE errors

\* A call of v.Check(ok, key, message).
CheckCall(ok, key, message) ==
    /\ vcalls < MaxCalls
    /\ vcalls' = vcalls + 1
    /\ verrors' = Check(verrors, ok, key, message)
    /\ vfailed' = IF ~ok /\ key \notin DOMAIN vfailed
                  THEN MapSet(vfailed, key, message) ELSE vfailed
    /\ vfailures' = IF ~ok THEN vfailures + 1 ELSE vfailures

\* A call of v.AddError(key, message).
AddErrorCall(key, message) ==
    /\ vcalls < MaxCalls
    /\ vcalls' = vcalls + 1
    /\ verrors' = AddError(verrors, key, message)
    /\ vfailed' = IF key \notin DOMAIN vfailed
                  THEN MapSet(vfailed, key, message) ELSE vfailed
    /\ vfailures' = vfailures + 1

\* What a call on the Validator leaves alone.
outsideValidator == <<dbvars, retries, removed, rlvars, uservars, panicvars,
                      servevars, filtervars, runtimevars>>

NextValidator ==
    \/ \E ok \in BOOLEAN, key \in Keys, message \in Messages :
          CheckCall(ok, key, message) /\ UNCHANGED outsideValidator
    \/ \E key \in Keys, message \in Messages :
          AddErrorCall(key, message) /\ UNCHANGED outsideValidator

SpecValidator == Init /\ [][NextValidator]_vars

\* C37: after any calls of Check and AddError the map holds, for every key
\* with a failed call, the message of the first of them; a later one never
\* replaces it; Valid() is true iff no call has failed.
C37_FirstErrorKept ==
    /\ [](/\ verrors = vfailed
          /\ Valid(verrors) <=> vfailures = 0)
    /\ [][\A key \in DOMAIN verrors :
             key \in DOMAIN verrors' /\ verrors'[key] = verrors[key]]_vars

\* Two calls or more have failed, each for the key page_size, and the map
\* holds the message of the first.
C37_Witness ==
    /\ vfailures >= 2
    /\ DOMAIN verrors = {"page_size"}
    /\ verrors["page_size"] = "must be greater than 0"
    /\ ~Valid(verrors)

(***************************************************************************)
(* internal/data: ValidateFilters, and listMovieHandler of cmd/api         *)
(***************************************************************************)

\* v.Check(f.Page <= 10_000_000, ...)
MaxPage == 10000000
\* v.Check(f.Page <= 100, "page_size", ...)
MaxPageSize == 100
\* app.readInt(qs, "page", 1, v)
DefaultPage == 1
\* app.readInt(qs, "page_size", 20, v)
DefaultPageSize == 20
\* app.readString(qs, "sort", "id")
DefaultSort == "id"

\* input.Filters.SortSafelist
SortSafelist == <<"id", "title", "year", "runtime", "-id", "-title", "-runtime">>

\* The values of a query parameter read as an integer: it is absent or
\* empty, it is not the text of an integer, or it is the text of n.
Absent == [kind |-> "absent", n |-> 0]
NotAnInt == [kind |-> "text", n |-> 0]
IntText(n) == [kind |-> "int", n |-> n]

PageParams ==
    {Absent, NotAnInt}
    \cup {IntText(n) : n \in {0, 1, MaxPageSize, MaxPageSize + 1, MaxPage, MaxPage + 1}}

PageSizeParams ==
    {Absent, NotAnInt} \cup {IntText(n) : n \in {0, 1, MaxPageSize, MaxPageSize + 1}}

\* The values of the parameter sort; "" is the absent one.
SortParams == {"", "title", "-id", "-year"}

QueryStrings == [page : PageParams, page_size : PageSizeParams, sort : SortParams]

\* validator.PermittedValue
PermittedValue(value, permittedValues) ==
    \E i \in 1..Len(permittedValues) : permittedValues[i] = value

\* ValidateFilters: the Errors map after its five checks. The fourth check
\* tests f.Page.
ValidateFilters(errors, f) ==
    LET e1 == Check(errors, f.Page > 0, "page", "must be greater than 0")
        e2 == Check(e1, f.Page <= MaxPage, "page", "must be a maximum of 10 million")
        e3 == Check(e2, f.PageSize > 0, "page_size", "must be greater than 0")
        e4 == Check(e3, f.Page <= MaxPageSize, "page_size", "must be a maximum of 100")
    IN  Check(e4, PermittedValue(f.Sort, f.SortSafelist), "sort", "invalid sort value")

\* readInt: the value and the Errors map it leaves.
ReadInt(errors, param, key, defaultValue) ==
    CASE param.kind = "absent" -> [value |-> defaultValue, errors |-> errors]
      [] param.kind = "text" ->
            [value |-> defaultValue,
             errors |-> AddError(errors, key, "must be an integer value")]
      [] param.kind = "int" -> [value |-> param.n, errors |-> errors]

\* readString
ReadString(param, defaultValue) == IF param = "" THEN defaultValue ELSE param

\* listMovieHandler: readInt, readString, ValidateFilters, GetAll, 200.
\* `how` is how GetAll ends.
ListMovies(q, how) ==
    /\ fpc = "idle"
    /\ fpc' = "done"
    /\ qs' = q
    /\ LET page == ReadInt(New, q.page, "page", DefaultPage)
           size == ReadInt(page.errors, q.page_size, "page_size", DefaultPageSize)
           f == [Page |-> page.value, PageSize |-> size.value,
                 Sort |-> ReadString(q.sort, DefaultSort),
                 SortSafelist |-> SortSafelist]
           errors == ValidateFilters(size.errors, f)
       IN  /\ filters' = f
           /\ ferrors' = errors
           /\ fstatus' = IF ~Valid(errors) THEN failedValidationResponse.status
                         ELSE IF how = "fault" THEN serverErrorResponse.status
                         ELSE writeJSON(200).status

\* net/http serves the next request.
NextList ==
    /\ fpc = "done"
    /\ fpc' = "idle"
    /\ qs' = Nil
    /\ filters' = Nil
    /\ ferrors' = New
    /\ fstatus' = 0

\* What listMovieHandler leaves alone.
outsideFilters == <<dbvars, retries, removed, rlvars, uservars, panicvars,
                    servevars, validatorvars, runtimevars>>

NextFilters ==
    \/ \E q \in QueryStrings, how \in {"ok", "fault"} :
          ListMovies(q, how) /\ UNCHANGED outsideFilters
    \/ NextList /\ UNCHANGED outsideFilters

SpecFilters == Init /\ [][NextFilters]_vars

\* The request's page and page_size were read as integers or defaulted.
IntegersRead == qs.page.kind # "text" /\ qs.page_size.kind # "text"

\* C36: ValidateFilters leaves the Validator valid iff 0 < Page <= 10,000,000,
\* 0 < PageSize <= 100 and Sort is in SortSafelist; a PageSize above 100
\* leaves an error under the key page_size.
C36_FiltersAccepted ==
    (fpc = "done" /\ IntegersRead) =>
       /\ Valid(ferrors) <=>
             /\ 0 < filters.Page /\ filters.Page <= 10000000
             /\ 0 < filters.PageSize /\ filters.PageSize <= 100
             /\ \E i \in 1..Len(filters.SortSafelist) :
                   filters.SortSafelist[i] = filters.Sort
       /\ filters.PageSize > 100 => "page_size" \in DOMAIN ferrors

(***************************************************************************)
(* internal/data: Runtime.MarshalJSON and Runtime.UnmarshalJSON. A text is *)
(* the sequence of its characters.                                         *)
(***************************************************************************)

\* type Runtime int32
MaxInt32 == 2147483647
MinInt32 == -MaxInt32 - 1

\* The Runtime values that are marshalled.
RuntimeValues == {MinInt32, -1, 0, 7, 90, MaxInt32}

\* The JSON values a client sends for the field runtime.
ClientInputs ==
    {<<"9", "0">>,
     <<"\"", "9", "0", "\"">>,
     <<"\"", "9", "0", " ", "m", "i", "n", "\"">>,
     <<"\"", "m", "i", "n", "s", " ", "9", "0", "\"">>,
     <<"\"", "9", "0", " ", " ", "m", "i", "n", "s", "\"">>,
     <<"\"", " ", "9", "0", " ", "m", "i", "n", "s", "\"">>,
     <<"\"", "9", "0", " ", "m", "i", "n", "s", " ", "\"">>,
     <<"\"", "x", " ", "m", "i", "n", "s", "\"">>,
     <<"\"", "2", "1", "4", "7", "4", "8", "3", "6", "4", "8", " ", "m", "i", "n", "s", "\"">>,
     <<"\"", "-", "2", "1", "4", "7", "4", "8", "3", "6", "4", "9", " ", "m", "i", "n", "s", "\"">>,
     <<"\"", "\"">>,
     <<"n", "u", "l", "l">>,
     <<"\"", "-", " ", "m", "i", "n", "s", "\"">>,
     <<"\"", "+", "5", " ", "m", "i", "n", "s", "\"">>,
     <<"\"", "0", "0", "7", " ", "m", "i", "n", "s", "\"">>,
     <<"\"", "9", ".", "5", " ", "m", "i", "n", "s", "\"">>}

DigitChars == <<"0", "1", "2", "3", "4", "5", "6", "7", "8", "9">>

IsDigit(c) == \E d \in 1..10 : DigitChars[d] = c

DigitValue(c) == (CHOOSE d \in 1..10 : DigitChars[d] = c) - 1

\* The decimal digits of n >= 0.
RECURSIVE Itoa(_)
Itoa(n) ==
    IF n < 10 THEN <<DigitChars[n + 1]>>
    ELSE Itoa(n \div 10) \o <<DigitChars[(n % 10) + 1]>>

\* fmt.Sprintf("%d", r). For r < 0 the digits of -r are taken from
\* m = -(r + 1), which is an int32 also when r is the least one.
FormatInt(r) ==
    IF r >= 0 THEN Itoa(r)
    ELSE LET m == -(r + 1)
             q == (m \div 10) + (IF m % 10 = 9 THEN 1 ELSE 0)
             d == ((m % 10) + 1) % 10
         IN  <<"-">> \o (IF q = 0 THEN <<>> ELSE Itoa(q)) \o <<DigitChars[d + 1]>>

\* strconv.Quote of a text that needs no escape.
Quote(s) == <<"\"">> \o s \o <<"\"">>

\* Runtime.MarshalJSON
MarshalJSON(r) == Quote(FormatInt(r) \o <<" ", "m", "i", "n", "s">>)

\* strconv.Unquote of a text without escapes: it must be in double quotes
\* and hold no other.
Unquote(s) ==
    IF /\ Len(s) >= 2
       /\ s[1] = "\""
       /\ s[Len(s)] = "\""
       /\ \A i \in 2..(Len(s) - 1) : s[i] # "\""
    THEN [ok |-> TRUE, value |-> SubSeq(s, 2, Len(s) - 1)]
    ELSE [ok |-> FALSE, value |-> <<>>]

\* strings.Split
RECURSIVE Split(_, _)
Split(s, sep) ==
    IF \E i \in 1..Len(s) : s[i] = sep
    THEN LET i == CHOOSE k \in 1..Len(s) :
                     s[k] = sep /\ \A j \in 1..(k - 1) : s[j] # sep
         IN  <<SubSeq(s, 1, i - 1)>> \o Split(SubSeq(s, i + 1, Len(s)), sep)
    ELSE <<s>>

\* The digits of strconv.ParseInt, taken from the left. The value is built
\* below zero, down to `limit`, so that the least int32 is reached without
\* overflow; a digit that would pass the limit is a range error.
RECURSIVE ParseDigits(_, _, _)
ParseDigits(s, acc, limit) ==
    IF s = <<>> THEN [ok |-> TRUE, value |-> acc]
    ELSE IF ~IsDigit(Head(s)) THEN [ok |-> FALSE, value |-> 0]
    ELSE IF acc < (limit + DigitValue(Head(s)) + 9) \div 10
    THEN [ok |-> FALSE, value |-> 0]
    ELSE ParseDigits(Tail(s), (acc * 10) - DigitValue(Head(s)), limit)

\* strconv.ParseInt(s, 10, 32)
ParseInt(s) ==
    LET neg == s # <<>> /\ s[1] = "-"
        digits == IF s # <<>> /\ s[1] \in {"+", "-"} THEN Tail(s) ELSE s
        p == ParseDigits(digits, 0, IF neg THEN MinInt32 ELSE -MaxInt32)
    IN  IF digits = <<>> \/ ~p.ok THEN [ok |-> FALSE, value |-> 0]
        ELSE [ok |-> TRUE, value |-> IF neg THEN p.value ELSE -p.value]

\* Mutant of Runtime.UnmarshalJSON: the second part is not compared with
\* "mins".
UnmarshalJSON_AnyUnit(r, jsonValue) ==
    LET u == Unquote(jsonValue)
        parts == Split(u.value, " ")
    IN  IF ~u.ok THEN [r |-> r, err |-> "ErrInvalidRuntimeFormat"]
        ELSE IF Len(parts) # 2
        THEN [r |-> r, err |-> "ErrInvalidRuntimeFormat"]
        ELSE IF ~ParseInt(parts[1]).ok
        THEN [r |-> r, err |-> "ErrInvalidRuntimeFormat"]
        ELSE [r |-> ParseInt(parts[1]).value, err |-> "nil"]

\* Runtime.UnmarshalJSON: the receiver after the call, and the error.
UnmarshalJSON(r, jsonValue) ==
    LET u == Unquote(jsonValue)
        parts == Split(u.value, " ")
    IN  IF ~u.ok THEN [r |-> r, err |-> "ErrInvalidRuntimeFormat"]
        ELSE IF Len(parts) # 2 \/ parts[2] # <<"m", "i", "n", "s">>
        THEN [r |-> r, err |-> "ErrInvalidRuntimeFormat"]
        ELSE IF ~ParseInt(parts[1]).ok
        THEN [r |-> r, err |-> "ErrInvalidRuntimeFormat"]
        ELSE [r |-> ParseInt(parts[1]).value, err |-> "nil"]

\* UnmarshalJSON is called on the receiver with the bytes `in`.
Decode(in, source) ==
    /\ rprev' = rt
    /\ rinput' = in
    /\ rsource' = source
    /\ rt' = UnmarshalJSON(rt, in).r
    /\ rerr' = UnmarshalJSON(rt, in).err

\* A Runtime is encoded, as writeJSON does, and the bytes are decoded.
RoundTrip(r) == Decode(MarshalJSON(r), Ptr(r))

\* The bytes of a client are decoded, as readJSON does.
ClientDecode(in) == Decode(in, Nil)

\* What a call on a Runtime leaves alone.
outsideRuntime == <<dbvars, retries, removed, rlvars, uservars, panicvars, servevars,
                    validatorvars, filtervars>>

NextRuntime ==
    \/ \E r \in RuntimeValues : RoundTrip(r) /\ UNCHANGED outsideRuntime
    \/ \E in \in ClientInputs : ClientDecode(in) /\ UNCHANGED outsideRuntime

SpecRuntime == Init /\ [][NextRuntime]_vars

\* The decimal text t is of an int32: a sign or none, digits, and a value
\* within the range, which is read off the digits after the leading zeros.
IsInt32Text(t) ==
    LET neg == t # <<>> /\ t[1] = "-"
        digits == IF t # <<>> /\ t[1] \in {"+", "-"} THEN Tail(t) ELSE t
        zeros == Cardinality({i \in 1..Len(digits) :
                                 \A j \in 1..i : digits[j] = "0"})
        sig == SubSeq(digits, zeros + 1, Len(digits))
        bound == IF neg THEN <<"2", "1", "4", "7", "4", "8", "3", "6", "4", "8">>
                 ELSE <<"2", "1", "4", "7", "4", "8", "3", "6", "4", "7">>
    IN  /\ digits # <<>>
        /\ \A i \in 1..Len(digits) : IsDigit(digits[i])
        /\ \/ Len(sig) < 10
           \/ /\ Len(sig) = 10
              /\ \/ sig = bound
                 \/ \E i \in 1..10 :
                       /\ DigitValue(sig[i]) < DigitValue(bound[i])
                       /\ \A j \in 1..(i - 1) : sig[j] = bound[j]

\* The bytes are a quoted string of the form "<int32> mins".
IsRuntimeText(s) ==
    /\ Len(s) >= 8
    /\ s[1] = "\""
    /\ SubSeq(s, Len(s) - 5, Len(s)) = <<" ", "m", "i", "n", "s", "\"">>
    /\ IsInt32Text(SubSeq(s, 2, Len(s) - 6))

\* C38: the bytes MarshalJSON gives for any Runtime r are decoded by
\* UnmarshalJSON without error into r; bytes that are not a quoted string of
\* the form "<int32> mins" are refused with ErrInvalidRuntimeFormat, and
\* the receiver keeps its value.
C38_RuntimeRoundTrip ==
    /\ rsource # Nil =>
          /\ rerr = "nil"
          /\ rt = rsource[1]
          /\ IsRuntimeText(rinput)
    /\ (rinput # Nil /\ ~IsRuntimeText(rinput)) =>
          /\ rerr = "ErrInvalidRuntimeFormat"
          /\ rt = rprev

\* The least int32 came back from its encoding, "-2147483648 mins" in
\* quotes, into a receiver that held another value.
C38_Witness ==
    /\ rsource = Ptr(MinInt32)
    /\ rinput = <<"\"", "-", "2", "1", "4", "7", "4", "8", "3", "6", "4", "8", " ", "m", "i", "n", "s", "\"">>
    /\ rt = MinInt32
    /\ rprev # MinInt32
    /\ rerr = "nil"

====
